---- MODULE Spec2Model ----
\* Forum crawler backend: the ingest job (app/tasks.py), the feed normaliser
\* and keyword filter (app/fetchers.py), the topic API (app/main.py,
\* app/crud.py) and the relational store (app/models.py) they share.
\*
\* The store is modelled as PostgreSQL runs it for the application
\* (READ COMMITTED): a statement sees the committed rows and the rows its own
\* transaction wrote; a unique index makes an INSERT wait while another open
\* transaction holds the same key and fail once that key is committed.
\* Strings are sequences of one-character strings so that lower() and the
\* substring test are computed, not assumed.
EXTENDS Integers, Sequences, FiniteSets, TLC

\* ---------------------------------------------------------------- bounds
MaxOps == 3      \* invocations of fetch_all_topics and API requests in a behaviour
MaxApiReqs == 4  \* API requests in a behaviour of the API alone
MaxStamp == 2    \* timestamps told apart under the recurring schedule
MaxSeq == 4      \* sequence values told apart under the recurring schedule

RunIds == {1, 2}
ReqIds == {1, 2}

\* ---------------------------------------------------------------- strings
\* None where a string is expected, and None where a list of strings is
None == <<"<None>">>
NullList == <<None>>

Truthy(s) == s # None /\ s # <<>>

Or(a, b) == IF Truthy(a) THEN a ELSE b

UpperChars == <<"E", "G", "N", "P", "S", "V", "X", "Y">>
LowerChars == <<"e", "g", "n", "p", "s", "v", "x", "y">>

LowerChar(c) ==
  IF \E i \in 1..Len(UpperChars) : UpperChars[i] = c
  THEN LowerChars[CHOOSE i \in 1..Len(UpperChars) : UpperChars[i] = c]
  ELSE c

lower(s) == [i \in 1..Len(s) |-> LowerChar(s[i])]

\* startswith instead of in
Contains_Prefix(text, k) ==
  Len(k) <= Len(text) /\ SubSeq(text, 1, Len(k)) = k

Contains(text, k) ==
  \E i \in 0..(Len(text) - Len(k)) : SubSeq(text, i + 1, i + Len(k)) = k

RECURSIVE Join(_)
Join(parts) ==
  IF Len(parts) = 0 THEN <<>>
  ELSE IF Len(parts) = 1 THEN parts[1]
  ELSE parts[1] \o <<" ">> \o Join(Tail(parts))

SelectTruthy(parts) == SelectSeq(parts, Truthy)

\* ---------------------------------------------------------------- fetchers.py
\* the filter without the two lower() calls
match_keywords_CaseSensitive(text, keywords) ==
  IF Len(keywords) = 0 THEN TRUE
  ELSE IF ~Truthy(text) THEN FALSE
  ELSE \E i \in 1..Len(keywords) : Contains(text, keywords[i])

match_keywords(text, keywords) ==
  IF Len(keywords) = 0 THEN TRUE
  ELSE IF ~Truthy(text) THEN FALSE
  ELSE \E i \in 1..Len(keywords) : Contains(lower(text), lower(keywords[i]))

\* the uid chain without its last alternative
entry_to_dict_NoFallback(entry, source) ==
  LET link == Or(Or(entry.link, entry.id), <<>>)
      uid == Or(Or(entry.id, entry.guid), link)
      summary == IF ~Truthy(entry.summary) /\ Truthy(entry.content)
                 THEN entry.content[1]
                 ELSE entry.summary
  IN [title |-> Or(entry.title, <<>>), link |-> link, summary |-> summary, uid |-> uid]

entry_to_dict(entry, source) ==
  LET link == Or(Or(entry.link, entry.id), <<>>)
      uid == Or(Or(Or(entry.id, entry.guid), link),
                source \o <<":">> \o (IF entry.title = None THEN <<>> ELSE entry.title))
      summary == IF ~Truthy(entry.summary) /\ Truthy(entry.content)
                 THEN entry.content[1]
                 ELSE entry.summary
  IN [title |-> Or(entry.title, <<>>), link |-> link, summary |-> summary, uid |-> uid]

V2EX == <<"v", "2", "e", "x">>
NODESEEK == <<"n", "o", "d", "e", "s", "e", "e", "k">>
LINUXDO == <<"l", "i", "n", "u", "x", ".", "d", "o">>

fetchers == {V2EX, NODESEEK, LINUXDO}

\* the lookup without source.lower()
Supported_CaseSensitive(source) == source \in fetchers

Supported(source) == lower(source) \in fetchers

fetch_generic_feed(raw, source) == [i \in 1..Len(raw) |-> entry_to_dict(raw[i], source)]

\* ---------------------------------------------------------------- tasks.py helpers
should_keep_entry(entry, keywords) ==
  LET text_parts == <<entry.title, entry.summary>>
      combined == Join(SelectTruthy(text_parts))
      keyword_list == IF keywords # NullList /\ Len(keywords) > 0 THEN keywords ELSE <<>>
  IN match_keywords(combined, keyword_list)

\* ---------------------------------------------------------------- inputs
\* Raw feed entries as feedparser hands them over (absent key = None).
RawA == [id |-> <<"x">>, guid |-> None, link |-> <<"l">>,
         title |-> <<"P", "y">>, summary |-> <<"o", "k">>, content |-> None]
RawB == [id |-> None, guid |-> <<"x">>, link |-> None,
         title |-> <<"G", "o">>, summary |-> None, content |-> << <<"n", "o">> >>]
RawC == [id |-> <<>>, guid |-> None, link |-> <<"x">>,
         title |-> <<"N", "o">>, summary |-> <<>>, content |-> None]
RawD == [id |-> None, guid |-> None, link |-> None,
         title |-> <<"P", "Y">>, summary |-> None, content |-> None]

Urls == {"u1", "u2"}

\* What the feed servers return, per feed url.
FeedChoices ==
  { [u \in Urls |-> IF u = "u1" THEN <<RawA, RawC>> ELSE <<RawB, RawD>>] }

KwPy == << <<"p", "Y">> >>

NodeSeek == <<"N", "o", "d", "e", "S", "e", "e", "k">>
Rss == <<"r", "s", "s">>

\* TopicCreate payloads (schemas.TopicCreate after validation).
CreateInputs ==
  { [name |-> "a", source |-> V2EX, feed_url |-> "u1", keywords |-> KwPy, is_active |-> TRUE],
    [name |-> "c", source |-> NodeSeek, feed_url |-> "u2", keywords |-> KwPy, is_active |-> TRUE],
    [name |-> "b", source |-> Rss, feed_url |-> "u1", keywords |-> <<>>, is_active |-> TRUE] }

\* The stores a deployment is observed from: the empty one that the migration
\* leaves, and one in which a POST /api/v1/topics has been accepted.
SeedTopics ==
  { [id |-> 1, name |-> "a", source |-> V2EX, feed_url |-> "u1", keywords |-> <<>>,
     is_active |-> TRUE] }

InitialTopics == {{}, SeedTopics}

\* TopicUpdate payloads: the fields that were set in the request body
\* (model_dump(exclude_unset=True)); nulls are the fields sent as JSON null.
NoVals == [f \in {} |-> 0]

Body(vals, nulls) == [vals |-> vals, nulls |-> nulls]

UpdateInputs ==
  { Body([name |-> "b"], {}), Body([is_active |-> FALSE], {}),
    Body([keywords |-> NullList], {}), Body([name |-> "b", is_active |-> FALSE], {}),
    Body([name |-> "c", is_active |-> TRUE], {}), Body(NoVals, {"name"}),
    Body([name |-> "a"], {}) }

\* the updates that change what the ingest job reads from a topic
IngestUpdateInputs ==
  {b \in UpdateInputs : DOMAIN b.vals \subseteq {"keywords", "is_active"} /\ b.nulls = {}}

\* ---------------------------------------------------------------- state
VARIABLES
  topics,       \* committed rows of table topics
  posts,        \* committed rows of table posts
  logs,         \* committed rows of table push_logs
  feeds,        \* url -> raw entries the feed server returns
  run,          \* RunIds -> one invocation of fetch_all_topics
  req,          \* ReqIds -> one API request on /api/v1/topics
  nextTopicId,  \* sequence topics.id
  nextPostId,   \* sequence posts.id
  nextLogId,    \* sequence push_logs.id
  clock,        \* number of transactions begun by the ingest job (now())
  nreq,         \* number of API requests received
  last,         \* history: what the latest committed invocation returned, the
                \* topics it had loaded, the posts it left, and whether no other
                \* transaction touched posts while it ran
  call          \* a direct call of a function of app/fetchers.py: its name,
                \* its arguments and, once it has returned, its result

vars ==
  <<topics, posts, logs, feeds, run, req, nextTopicId, nextPostId, nextLogId, clock, nreq, last,
    call>>

ZeroStats == [topics_checked |-> 0, posts_created |-> 0, duplicates |-> 0]

NoLast == [valid |-> FALSE, stats |-> ZeroStats, topics |-> {}, posts |-> {}, alone |-> FALSE]

\* pc, topics, ti, entries, ei, stats, wposts, wlogs, now, error are the locals
\* and the session of one invocation; fetched, made, pre, prev are history:
\* the topic ids fetch_feed was called for, the ids of the posts it added, the
\* committed posts and logs and the value of the posts.id sequence when it
\* began, and last when it began.
IdleRun ==
  [pc |-> "idle", topics |-> <<>>, ti |-> 0, entries |-> <<>>, ei |-> 0,
   stats |-> ZeroStats, wposts |-> {}, wlogs |-> {}, now |-> 0, error |-> "",
   fetched |-> <<>>, made |-> {}, pre |-> [posts |-> {}, logs |-> {}, seq |-> 0], prev |-> NoLast]

get_system_stats_Unfiltered(ts, ps, ls) ==
  [topics_total |-> Cardinality(ts),
   active_topics |-> Cardinality(ts),
   posts_total |-> Cardinality(ps),
   logs_total |-> Cardinality(ls)]

\* crud.get_system_stats over the rows a statement sees
get_system_stats(ts, ps, ls) ==
  [topics_total |-> Cardinality(ts),
   active_topics |-> Cardinality({t \in ts : t.is_active}),
   posts_total |-> Cardinality(ps),
   logs_total |-> Cardinality(ls)]

NoOut == [total |-> 0, items |-> <<>>, counts |-> get_system_stats({}, {}, {})]

\* out is what a read request has collected for its response
NoCall == [fn |-> "none", args |-> <<>>, done |-> FALSE, result |-> <<>>]

IdleReq ==
  [op |-> "none", pc |-> "idle", tid |-> 0, row |-> None, body |-> Body(NoVals, {}), resp |-> 0,
   out |-> NoOut]

Init ==
  /\ topics \in InitialTopics
  /\ posts = {}
  /\ logs = {}
  /\ feeds \in FeedChoices
  /\ run = [r \in RunIds |-> IdleRun]
  /\ req = [q \in ReqIds |-> IdleReq]
  /\ nextTopicId = Cardinality(topics) + 1
  /\ nextPostId = 1
  /\ nextLogId = 1
  /\ clock = 0
  /\ nreq = 0
  /\ last = NoLast
  /\ call = NoCall

\* ---------------------------------------------------------------- store
Uids(ps) == {p.uid : p \in ps}

Ids(rows) == {x.id : x \in rows}

Names_(rows) == {t.name : t \in rows}

TopicIds == Ids(topics)

\* rows of posts that open ingest transactions other than r have inserted
OtherWrites(r) == UNION {run[o].wposts : o \in RunIds \ {r}}

AllWrites == UNION {run[o].wposts : o \in RunIds}

\* rows of topics inserted by open API transactions other than q
PendingRows(q) == {req[o].row : o \in {x \in ReqIds \ {q} : req[x].pc = "commit"}}

\* the table without uq_posts_uid
UidTaken_NoConstraint(r, uid) == FALSE

\* UniqueConstraint("uid", name="uq_posts_uid") against the committed rows
\* and the rows of the inserting transaction
UidTaken(r, uid) == uid \in Uids(posts) \cup Uids(run[r].wposts)

\* an index that does not make the INSERT wait for open transactions
UidHeld_NoWait(r, uid) == FALSE

\* ... and against the rows of open transactions: the INSERT waits for them
UidHeld(r, uid) == uid \in Uids(OtherWrites(r))

\* posts.topic_id without its foreign key
TopicMissing_NoForeignKey(tid) == FALSE

\* ForeignKey("topics.id") of posts.topic_id
TopicMissing(tid) == tid \notin TopicIds

\* the table without the unique index on topics.name
NameTaken_NoConstraint(name, own) == FALSE

\* topics.name unique=True against the committed rows other than own
NameTaken(name, own) == name \in Names_({t \in topics : t.id # own})

\* ... and against the rows of open transactions
NameHeld(q, name) == name \in Names_(PendingRows(q))

\* ---------------------------------------------------------------- tasks.py
Orders(S) ==
  {s \in [1..Cardinality(S) -> S] : \A i, j \in 1..Cardinality(S) : i # j => s[i] # s[j]}

\* the SELECT without .where(models.Topic.is_active)
get_active_topics_All == topics

get_active_topics == {t \in topics : t.is_active}

\* the job without the duplicate check
uid_exists_Never(r, uid) == FALSE

\* a SELECT that does not see the rows the job's own session flushed
uid_exists_CommittedOnly(r, uid) == uid \in Uids(posts)

\* the SELECT sees the committed rows and the rows of the job's own session
uid_exists(r, uid) == uid \in Uids(posts) \cup Uids(run[r].wposts)

\* the job without stats["duplicates"] += 1
CountDuplicate_Noop(stats) == stats

\* stats["duplicates"] += 1
CountDuplicate(stats) == [stats EXCEPT !.duplicates = @ + 1]

\* the job without stats["posts_created"] += 1
CountCreated_Noop(stats) == stats

\* stats["posts_created"] += 1
CountCreated(stats) == [stats EXCEPT !.posts_created = @ + 1]

\* models.Post(topic_id=topic.id, title=..., content=entry.get("summary"), ...)
NewPost(id, topic, entry, now) ==
  [id |-> id, topic_id |-> topic.id, title |-> entry.title, content |-> entry.summary,
   link |-> entry.link, uid |-> entry.uid, is_pushed |-> FALSE, created_at |-> now]

\* a push log created as already delivered
NewLog_Sent(id, post, now) ==
  [id |-> id, post_id |-> post.id, status |-> "sent", created_at |-> now]

\* models.PushLog(post_id=post.id, status="pending")
NewLog(id, post, now) ==
  [id |-> id, post_id |-> post.id, status |-> "pending", created_at |-> now]

\* an except branch that re-raises without session.rollback()
Rollback_KeepsWrites(r, err) ==
  [run[r] EXCEPT !.pc = "failed", !.error = err, !.ti = 0, !.entries = <<>>, !.ei = 0]

\* except Exception: session.rollback(); raise; finally: session.close()
Rollback(r, err) ==
  [run[r] EXCEPT !.pc = "failed", !.error = err, !.wposts = {}, !.wlogs = {},
                 !.ti = 0, !.entries = <<>>, !.ei = 0]

\* the position after the current entry of the current topic
Advance(rec) ==
  IF rec.ei < Len(rec.entries) THEN [rec EXCEPT !.ei = rec.ei + 1, !.pc = "entry"]
  ELSE IF rec.ti < Len(rec.topics)
       THEN [rec EXCEPT !.ti = rec.ti + 1, !.entries = <<>>, !.ei = 0, !.pc = "fetch"]
       ELSE [rec EXCEPT !.entries = <<>>, !.ei = 0, !.pc = "commit"]

RunFree(r) ==
  /\ run[r].pc \in {"idle", "done", "failed"}
  /\ \A o \in RunIds : o < r => run[o].pc \notin {"idle", "done", "failed"}

\* session = SessionLocal(); topics = _get_active_topics(session);
\* stats["topics_checked"] = len(topics). The SELECT has no ORDER BY.
StartRun(r) ==
  /\ RunFree(r)
  /\ clock + nreq < MaxOps
  /\ \E order \in Orders(get_active_topics) :
       run' = [run EXCEPT ![r] =
                 [IdleRun EXCEPT !.pc = IF Len(order) = 0 THEN "commit" ELSE "fetch",
                                 !.topics = order,
                                 !.ti = IF Len(order) = 0 THEN 0 ELSE 1,
                                 !.stats = [ZeroStats EXCEPT !.topics_checked = Len(order)],
                                 !.now = clock + 1,
                                 !.pre = [posts |-> posts, logs |-> logs, seq |-> nextPostId],
                                 !.prev = last]]
  /\ clock' = clock + 1
  /\ UNCHANGED <<call, topics, posts, logs, feeds, req, nextTopicId, nextPostId, nextLogId, nreq, last>>

\* entries = asyncio.run(fetch_feed(topic.source, topic.feed_url)), source known
FetchFeed(r) ==
  /\ run[r].pc = "fetch"
  /\ LET topic == run[r].topics[run[r].ti]
         entries == fetch_generic_feed(feeds[topic.feed_url], lower(topic.source))
         rec == [run[r] EXCEPT !.entries = entries, !.ei = 0,
                               !.fetched = Append(run[r].fetched, topic.id)]
     IN /\ Supported(topic.source)
        /\ run' = [run EXCEPT ![r] = Advance(rec)]
  /\ UNCHANGED <<call, topics, posts, logs, feeds, req, nextTopicId, nextPostId, nextLogId, clock,
                 nreq, last>>

\* fetch_feed raises ValueError("Unsupported source") before any request
FetchUnsupported(r) ==
  /\ run[r].pc = "fetch"
  /\ ~Supported(run[r].topics[run[r].ti].source)
  /\ run' = [run EXCEPT ![r] = Rollback(r, "ValueError")]
  /\ UNCHANGED <<call, topics, posts, logs, feeds, req, nextTopicId, nextPostId, nextLogId, clock,
                 nreq, last>>

\* the GET fails or response.raise_for_status() raises
FetchError(r) ==
  /\ run[r].pc = "fetch"
  /\ Supported(run[r].topics[run[r].ti].source)
  /\ run' = [run EXCEPT ![r] =
               [Rollback(r, "TransportError") EXCEPT
                  !.fetched = Append(run[r].fetched, run[r].topics[run[r].ti].id)]]
  /\ UNCHANGED <<call, topics, posts, logs, feeds, req, nextTopicId, nextPostId, nextLogId, clock,
                 nreq, last>>

\* the two tests in the other order: keyword test, then duplicate check
CheckEntry_KeywordFirst(r) ==
  /\ run[r].pc = "entry"
  /\ LET topic == run[r].topics[run[r].ti]
         entry == run[r].entries[run[r].ei]
     IN run' = [run EXCEPT ![r] =
                  IF ~should_keep_entry(entry, topic.keywords)
                  THEN Advance(run[r])
                  ELSE IF uid_exists(r, entry.uid)
                       THEN Advance([run[r] EXCEPT !.stats = CountDuplicate(@)])
                       ELSE [run[r] EXCEPT !.pc = "insert"]]
  /\ UNCHANGED <<call, topics, posts, logs, feeds, req, nextTopicId, nextPostId, nextLogId, clock,
                 nreq, last>>

\* if _uid_exists(session, uid): stats["duplicates"] += 1; continue
\* if not _should_keep_entry(entry, topic.keywords): continue
CheckEntry(r) ==
  /\ run[r].pc = "entry"
  /\ LET topic == run[r].topics[run[r].ti]
         entry == run[r].entries[run[r].ei]
     IN run' = [run EXCEPT ![r] =
                  IF uid_exists(r, entry.uid)
                  THEN Advance([run[r] EXCEPT !.stats = CountDuplicate(@)])
                  ELSE IF ~should_keep_entry(entry, topic.keywords)
                       THEN Advance(run[r])
                       ELSE [run[r] EXCEPT !.pc = "insert"]]
  /\ UNCHANGED <<call, topics, posts, logs, feeds, req, nextTopicId, nextPostId, nextLogId, clock,
                 nreq, last>>

\* session.add(post); session.flush(); session.add(log); posts_created += 1
\* The INSERT waits while another open transaction holds the uid; it raises
\* IntegrityError when the uid is committed (uq_posts_uid) or the topic row
\* is gone (posts.topic_id -> topics.id).
InsertPost(r) ==
  /\ run[r].pc = "insert"
  /\ LET topic == run[r].topics[run[r].ti]
         entry == run[r].entries[run[r].ei]
         post == NewPost(nextPostId, topic, entry, run[r].now)
         log == NewLog(nextLogId, post, run[r].now)
     IN /\ ~UidHeld(r, entry.uid)
        /\ IF UidTaken(r, entry.uid) \/ TopicMissing(topic.id)
           THEN /\ run' = [run EXCEPT ![r] = Rollback(r, "IntegrityError")]
                /\ UNCHANGED nextLogId
           ELSE /\ run' = [run EXCEPT ![r] =
                             Advance([run[r] EXCEPT !.wposts = @ \cup {post},
                                                    !.wlogs = @ \cup {log},
                                                    !.made = @ \cup {post.id},
                                                    !.stats = CountCreated(@)])]
                /\ nextLogId' = nextLogId + 1
  /\ nextPostId' = nextPostId + 1
  /\ UNCHANGED <<call, topics, posts, logs, feeds, req, nextTopicId, clock, nreq, last>>

\* Two jobs each wait for a uid the other holds: the store's deadlock
\* detector aborts one of the two INSERTs (either may be the victim).
DeadlockAbort(r) ==
  /\ run[r].pc = "insert"
  /\ \E o \in RunIds \ {r} :
       /\ run[o].pc = "insert"
       /\ run[r].entries[run[r].ei].uid \in Uids(run[o].wposts)
       /\ run[o].entries[run[o].ei].uid \in Uids(run[r].wposts)
  /\ run' = [run EXCEPT ![r] = Rollback(r, "DeadlockDetected")]
  /\ nextPostId' = nextPostId + 1
  /\ UNCHANGED <<call, topics, posts, logs, feeds, req, nextTopicId, nextLogId, clock, nreq, last>>

\* session.commit(); session.close(); return stats
Commit(r) ==
  /\ run[r].pc = "commit"
  /\ posts' = posts \cup run[r].wposts
  /\ logs' = logs \cup run[r].wlogs
  /\ run' = [run EXCEPT ![r] = [run[r] EXCEPT !.pc = "done", !.wposts = {}, !.wlogs = {},
                                              !.ti = 0]]
  /\ last' = [valid |-> TRUE, stats |-> run[r].stats,
              topics |-> {run[r].topics[i] : i \in 1..Len(run[r].topics)},
              posts |-> posts',
              alone |-> posts = run[r].pre.posts
                        /\ nextPostId = run[r].pre.seq + Cardinality(run[r].made)]
  /\ UNCHANGED <<call, topics, feeds, req, nextTopicId, nextPostId, nextLogId, clock, nreq>>

\* fetch_all_topics as a function: what one invocation that no other
\* transaction interleaves with does to the store, for the order in which
\* _get_active_topics returned the topics. acc holds the session's pending
\* rows, the stats and the two id sequences.
RECURSIVE TopicEntries(_)
TopicEntries(order) ==
  IF Len(order) = 0 THEN <<>>
  ELSE LET topic == Head(order)
           entries == fetch_generic_feed(feeds[topic.feed_url], lower(topic.source))
       IN [i \in 1..Len(entries) |-> [topic |-> topic, entry |-> entries[i]]]
          \o TopicEntries(Tail(order))

\* the body of the inner loop with the keyword test and nothing else
process_entry_NoDuplicateCheck(acc, topic, entry, committed, now) ==
  IF ~should_keep_entry(entry, topic.keywords)
  THEN acc
  ELSE LET post == NewPost(acc.seq, topic, entry, now)
       IN [acc EXCEPT !.wposts = @ \cup {post},
                      !.wlogs = @ \cup {NewLog(acc.logseq, post, now)},
                      !.stats = CountCreated(@),
                      !.seq = @ + 1, !.logseq = @ + 1]

\* the body of the inner loop, lines 68-90
process_entry(acc, topic, entry, committed, now) ==
  IF entry.uid \in Uids(committed) \cup Uids(acc.wposts)
  THEN [acc EXCEPT !.stats = CountDuplicate(@)]
  ELSE IF ~should_keep_entry(entry, topic.keywords)
       THEN acc
       ELSE LET post == NewPost(acc.seq, topic, entry, now)
            IN [acc EXCEPT !.wposts = @ \cup {post},
                           !.wlogs = @ \cup {NewLog(acc.logseq, post, now)},
                           !.stats = CountCreated(@),
                           !.seq = @ + 1, !.logseq = @ + 1]

RECURSIVE process_entries(_, _, _, _)
process_entries(pairs, acc, committed, now) ==
  IF Len(pairs) = 0 THEN acc
  ELSE process_entries(Tail(pairs),
                       process_entry(acc, Head(pairs).topic, Head(pairs).entry, committed, now),
                       committed, now)

\* ok is FALSE when fetch_feed raises for a topic of an unsupported source:
\* the invocation is rolled back as a whole
fetch_all_topics(order, committed, seq, logseq, now) ==
  LET start == [wposts |-> {}, wlogs |-> {}, seq |-> seq, logseq |-> logseq,
                stats |-> [ZeroStats EXCEPT !.topics_checked = Len(order)]]
      ok == \A i \in 1..Len(order) : Supported(order[i].source)
      acc == IF ok THEN process_entries(TopicEntries(order), start, committed, now) ELSE start
  IN [ok |-> ok, posts |-> acc.wposts, logs |-> acc.wlogs, stats |-> acc.stats]

\* ---------------------------------------------------------------- main.py / crud.py
\* a request is served by the first worker that is not serving one
ReqFree(q) ==
  /\ req[q].pc \in {"idle", "done"}
  /\ \A o \in ReqIds : o < q => req[o].pc \notin {"idle", "done"}

\* the request is answered; its record stays as history until the worker
\* takes the next request
Finished(rec, resp) == [rec EXCEPT !.pc = "done", !.resp = resp]

\* an endpoint without the except IntegrityError branch
Refused_Unhandled(rec) == Finished(rec, 500)

\* except IntegrityError: await session.rollback(); raise HTTPException(400,
\* "Topic with the same name already exists.")
Refused(rec) == Finished(rec, 400)

\* POST /api/v1/topics: topic = models.Topic(**topic_in.model_dump()); session.add(topic)
CreateTopic(q, body) ==
  /\ ReqFree(q)
  /\ req' = [req EXCEPT ![q] =
               [IdleReq EXCEPT !.op = "create", !.pc = "insert",
                               !.row = [id |-> 0, name |-> body.name, source |-> body.source,
                                        feed_url |-> body.feed_url, keywords |-> body.keywords,
                                        is_active |-> body.is_active]]]
  /\ nreq' = nreq + 1
  /\ UNCHANGED <<call, topics, posts, logs, feeds, run, nextTopicId, nextPostId, nextLogId, clock, last>>

\* await session.commit(): the flush sends the INSERT. It waits while another
\* open transaction holds the name and raises IntegrityError (-> rollback,
\* 400) when the name is committed.
CreateInsert(q) ==
  /\ req[q].op = "create"
  /\ req[q].pc = "insert"
  /\ ~NameHeld(q, req[q].row.name)
  /\ req' = [req EXCEPT ![q] =
               IF NameTaken(req[q].row.name, 0)
               THEN Refused(req[q])
               ELSE [req[q] EXCEPT !.pc = "commit", !.tid = nextTopicId,
                                   !.row.id = nextTopicId]]
  /\ nextTopicId' = nextTopicId + 1
  /\ UNCHANGED <<call, topics, posts, logs, feeds, run, nextPostId, nextLogId, clock, nreq, last>>

\* ... COMMIT; await session.refresh(topic); 201
CreateCommit(q) ==
  /\ req[q].op = "create"
  /\ req[q].pc = "commit"
  /\ topics' = topics \cup {req[q].row}
  /\ req' = [req EXCEPT ![q] = Finished(req[q], 201)]
  /\ UNCHANGED <<call, posts, logs, feeds, run, nextTopicId, nextPostId, nextLogId, clock, nreq, last>>

\* PUT /api/v1/topics/{id}: topic = await crud.get_topic(session, topic_id)
UpdateLoad(q, tid, body) ==
  /\ ReqFree(q)
  /\ req' = [req EXCEPT ![q] =
               IF tid \in TopicIds
               THEN [IdleReq EXCEPT !.op = "update", !.pc = "write", !.tid = tid,
                                    !.row = CHOOSE t \in topics : t.id = tid,
                                    !.body = body]
               ELSE Finished([IdleReq EXCEPT !.op = "update", !.tid = tid], 404)]
  /\ nreq' = nreq + 1
  /\ UNCHANGED <<call, topics, posts, logs, feeds, run, nextTopicId, nextPostId, nextLogId, clock, last>>

NotNullFields == {"name", "source", "feed_url", "is_active"}

\* the columns the unit of work puts in the UPDATE after
\* for field, value in topic_in.model_dump(exclude_unset=True).items(): setattr(...)
\* : those whose value differs from the loaded one
Dirty(row, body) == {f \in DOMAIN body.vals : body.vals[f] # row[f]} \cup body.nulls

\* TopicRead.model_validate(topic): keywords must be a list
Readable(row) == row.keywords # NullList

\* an UPDATE that only the NOT NULL constraints can reject
Violates_NotNullOnly(body, dirty, tid) == body.nulls \cap NotNullFields # {}

\* the UPDATE breaks a constraint of table topics: a NOT NULL column set to
\* null, or a new name that another committed row has
Violates(body, dirty, tid) ==
  \/ body.nulls \cap NotNullFields # {}
  \/ "name" \in dirty \ body.nulls /\ NameTaken(body.vals.name, tid)

\* crud.update_topic: setattr, commit (UPDATE ... WHERE id = :id; COMMIT), refresh
UpdateWrite(q) ==
  /\ req[q].op = "update"
  /\ req[q].pc = "write"
  /\ LET loaded == req[q].row
         body == req[q].body
         tid == req[q].tid
         dirty == Dirty(loaded, body)
         present == tid \in TopicIds
         cur == CHOOSE t \in topics : t.id = tid
         new == [f \in DOMAIN cur |-> IF f \in dirty THEN body.vals[f] ELSE cur[f]]
         renamed == "name" \in dirty \ body.nulls
         violates == Violates(body, dirty, tid)
         done == [req[q] EXCEPT !.row = None]
     IN /\ (renamed /\ present) => ~NameHeld(q, body.vals.name)
        /\ IF ~present
           THEN \* StaleDataError on the UPDATE, or refresh() of a deleted row
                /\ req' = [req EXCEPT ![q] = Finished(done, 500)]
                /\ UNCHANGED topics
           ELSE IF dirty = {}
           THEN /\ req' = [req EXCEPT ![q] = Finished(done, IF Readable(cur) THEN 200 ELSE 500)]
                /\ UNCHANGED topics
           ELSE IF violates
           THEN /\ req' = [req EXCEPT ![q] = Refused(done)]
                /\ UNCHANGED topics
           ELSE /\ topics' = (topics \ {cur}) \cup {new}
                /\ req' = [req EXCEPT ![q] = Finished(done, IF Readable(new) THEN 200 ELSE 500)]
  /\ UNCHANGED <<call, posts, logs, feeds, run, nextTopicId, nextPostId, nextLogId, clock, nreq, last>>

\* DELETE /api/v1/topics/{id}: topic = await crud.get_topic(session, topic_id)
DeleteLoad(q, tid) ==
  /\ ReqFree(q)
  /\ req' = [req EXCEPT ![q] =
               IF tid \in TopicIds
               THEN [IdleReq EXCEPT !.op = "delete", !.pc = "write", !.tid = tid]
               ELSE Finished([IdleReq EXCEPT !.op = "delete", !.tid = tid], 404)]
  /\ nreq' = nreq + 1
  /\ UNCHANGED <<call, topics, posts, logs, feeds, run, nextTopicId, nextPostId, nextLogId, clock, last>>

\* a delete that cascades to nothing
OwnedPosts_None(tid) == {}

\* rows removed with topic tid: relationship cascade and ON DELETE CASCADE
OwnedPosts(tid) == {p \in posts : p.topic_id = tid}

OwnedLogs(tid) == {l \in logs : l.post_id \in Ids(OwnedPosts(tid))}

\* crud.delete_topic: session.delete(topic); commit. The DELETE waits while an
\* open transaction has inserted a post that references the topic row.
DeleteWrite(q) ==
  /\ req[q].op = "delete"
  /\ req[q].pc = "write"
  /\ LET tid == req[q].tid
     IN /\ \A p \in AllWrites : p.topic_id # tid
        /\ topics' = {t \in topics : t.id # tid}
        /\ posts' = posts \ OwnedPosts(tid)
        /\ logs' = logs \ OwnedLogs(tid)
        /\ req' = [req EXCEPT ![q] = Finished(req[q], 204)]
  /\ UNCHANGED <<call, feeds, run, nextTopicId, nextPostId, nextLogId, clock, nreq, last>>

\* ---------------------------------------------------------------- main.py / crud.py, reads
\* Query parameters. An optional filter is the set of the values supplied:
\* empty when the parameter is absent.
Pages == {[skip |-> 0, limit |-> 1], [skip |-> 0, limit |-> 2], [skip |-> 1, limit |-> 1],
          [skip |-> 1, limit |-> 2], [skip |-> 2, limit |-> 1]}

PostPages == {[skip |-> 0, limit |-> 1], [skip |-> 0, limit |-> 2], [skip |-> 1, limit |-> 1]}

PostFilters ==
  {[topic_id |-> {}, source |-> {}], [topic_id |-> {1}, source |-> {}],
   [topic_id |-> {}, source |-> {V2EX}], [topic_id |-> {1}, source |-> {NodeSeek}]}

\* .offset(skip).limit(limit) over an ordered result
Window(rows, skip, limit) ==
  SubSeq(rows, skip + 1, IF skip + limit < Len(rows) THEN skip + limit ELSE Len(rows))

\* the orders in which ORDER BY created_at DESC may return the rows: the
\* order among rows with equal created_at is the store's choice
ByCreatedDesc(rows) ==
  {s \in Orders(rows) : \A i, j \in 1..Len(s) : i < j => s[i].created_at >= s[j].created_at}

\* ORDER BY id
ById(rows) ==
  CHOOSE s \in Orders(rows) : \A i, j \in 1..Len(s) : i < j => s[i].id < s[j].id

\* a query that also reads the rows of open transactions
MatchingPosts_Dirty(filter) ==
  {p \in posts \cup AllWrites :
     /\ \A tid \in filter.topic_id : p.topic_id = tid
     /\ \A src \in filter.source : \E t \in topics : t.id = p.topic_id /\ t.source = src}

MatchingPosts_TopicOnly(filter) ==
  {p \in posts : \A tid \in filter.topic_id : p.topic_id = tid}

\* the WHERE clauses of crud.list_posts, the join with topics included
MatchingPosts(filter) ==
  {p \in posts :
     /\ \A tid \in filter.topic_id : p.topic_id = tid
     /\ \A src \in filter.source : \E t \in topics : t.id = p.topic_id /\ t.source = src}

\* GET /api/v1/posts: count_result = await session.execute(count_stmt)
ListPostsCount(q, page, filter) ==
  /\ ReqFree(q)
  /\ req' = [req EXCEPT ![q] =
               [IdleReq EXCEPT !.op = "list_posts", !.pc = "select",
                               !.body = [page |-> page, filter |-> filter],
                               !.out.total = Cardinality(MatchingPosts(filter))]]
  /\ UNCHANGED <<call, topics, posts, logs, feeds, run, nextTopicId, nextPostId, nextLogId, clock,
                 nreq, last>>

\* result = await session.execute(stmt...offset(skip).limit(limit)); the
\* response is built from PostRead.model_validate(post) for each row
ListPostsSelect(q) ==
  /\ req[q].op = "list_posts"
  /\ req[q].pc = "select"
  /\ \E rows \in ByCreatedDesc(MatchingPosts(req[q].body.filter)) :
       req' = [req EXCEPT ![q] =
                 Finished([req[q] EXCEPT !.out.items =
                             Window(rows, req[q].body.page.skip, req[q].body.page.limit)],
                          200)]
  /\ UNCHANGED <<call, topics, posts, logs, feeds, run, nextTopicId, nextPostId, nextLogId, clock,
                 nreq, last>>

\* GET /api/v1/topics: total = select(func.count()).select_from(models.Topic)
ListTopicsCount(q, page) ==
  /\ ReqFree(q)
  /\ req' = [req EXCEPT ![q] =
               [IdleReq EXCEPT !.op = "list_topics", !.pc = "select",
                               !.body = [page |-> page],
                               !.out.total = Cardinality(topics)]]
  /\ UNCHANGED <<call, topics, posts, logs, feeds, run, nextTopicId, nextPostId, nextLogId, clock,
                 nreq, last>>

\* select(models.Topic).order_by(models.Topic.id).offset(skip).limit(limit);
\* items = [schemas.TopicRead.model_validate(topic) for topic in topics]
ListTopicsSelect(q) ==
  /\ req[q].op = "list_topics"
  /\ req[q].pc = "select"
  /\ LET rows == Window(ById(topics), req[q].body.page.skip, req[q].body.page.limit)
     IN req' = [req EXCEPT ![q] =
                  IF \A i \in 1..Len(rows) : Readable(rows[i])
                  THEN Finished([req[q] EXCEPT !.out.items = rows], 200)
                  ELSE Finished([req[q] EXCEPT !.out = NoOut], 500)]
  /\ UNCHANGED <<call, topics, posts, logs, feeds, run, nextTopicId, nextPostId, nextLogId, clock,
                 nreq, last>>

LogPages == {[skip |-> 0, limit |-> 2], [skip |-> 1, limit |-> 1]}

LogFilters == {[status |-> {}], [status |-> {"pending"}], [status |-> {"sent"}]}

\* the WHERE clause of crud.list_push_logs
MatchingLogs(filter) == {l \in logs : \A st \in filter.status : l.status = st}

\* GET /api/v1/logs: count_result = await session.execute(count_stmt)
ListLogsCount(q, page, filter) ==
  /\ ReqFree(q)
  /\ req' = [req EXCEPT ![q] =
               [IdleReq EXCEPT !.op = "list_logs", !.pc = "select",
                               !.body = [page |-> page, filter |-> filter],
                               !.out.total = Cardinality(MatchingLogs(filter))]]
  /\ UNCHANGED <<call, topics, posts, logs, feeds, run, nextTopicId, nextPostId, nextLogId,
                 clock, nreq, last>>

\* result = await session.execute(stmt...offset(skip).limit(limit)); the
\* response is built from PushLogRead.model_validate(log) for each row
ListLogsSelect(q) ==
  /\ req[q].op = "list_logs"
  /\ req[q].pc = "select"
  /\ \E rows \in ByCreatedDesc(MatchingLogs(req[q].body.filter)) :
       req' = [req EXCEPT ![q] =
                 Finished([req[q] EXCEPT !.out.items =
                             Window(rows, req[q].body.page.skip, req[q].body.page.limit)],
                          200)]
  /\ UNCHANGED <<call, topics, posts, logs, feeds, run, nextTopicId, nextPostId, nextLogId,
                 clock, nreq, last>>

\* GET /api/v1/system/stats: the four counts of crud.get_system_stats are
\* four statements, each reading the store as committed when it executes
StatsTopics(q) ==
  /\ ReqFree(q)
  /\ req' = [req EXCEPT ![q] =
               [IdleReq EXCEPT !.op = "stats", !.pc = "active",
                               !.out.counts.topics_total =
                                 get_system_stats(topics, posts, logs).topics_total]]
  /\ UNCHANGED <<call, topics, posts, logs, feeds, run, nextTopicId, nextPostId, nextLogId, clock,
                 nreq, last>>

StatsActive(q) ==
  /\ req[q].op = "stats"
  /\ req[q].pc = "active"
  /\ req' = [req EXCEPT ![q].pc = "posts",
                        ![q].out.counts.active_topics =
                          get_system_stats(topics, posts, logs).active_topics]
  /\ UNCHANGED <<call, topics, posts, logs, feeds, run, nextTopicId, nextPostId, nextLogId, clock,
                 nreq, last>>

StatsPosts(q) ==
  /\ req[q].op = "stats"
  /\ req[q].pc = "posts"
  /\ req' = [req EXCEPT ![q].pc = "logs",
                        ![q].out.counts.posts_total =
                          get_system_stats(topics, posts, logs).posts_total]
  /\ UNCHANGED <<call, topics, posts, logs, feeds, run, nextTopicId, nextPostId, nextLogId, clock,
                 nreq, last>>

StatsLogs(q) ==
  /\ req[q].op = "stats"
  /\ req[q].pc = "logs"
  /\ req' = [req EXCEPT ![q] =
               Finished([req[q] EXCEPT !.out.counts.logs_total =
                           get_system_stats(topics, posts, logs).logs_total], 200)]
  /\ UNCHANGED <<call, topics, posts, logs, feeds, run, nextTopicId, nextPostId, nextLogId, clock,
                 nreq, last>>

\* ---------------------------------------------------------------- specification
Ingest ==
  \/ \E r \in RunIds : StartRun(r)
  \/ \E r \in RunIds : FetchFeed(r)
  \/ \E r \in RunIds : FetchUnsupported(r)
  \/ \E r \in RunIds : FetchError(r)
  \/ \E r \in RunIds : CheckEntry(r)
  \/ \E r \in RunIds : InsertPost(r)
  \/ \E r \in RunIds : DeadlockAbort(r)
  \/ \E r \in RunIds : Commit(r)

\* the steps by which the topic API serves the requests it has received
Serve ==
  \/ \E q \in ReqIds : CreateInsert(q)
  \/ \E q \in ReqIds : CreateCommit(q)
  \/ \E q \in ReqIds : UpdateWrite(q)
  \/ \E q \in ReqIds : DeleteWrite(q)

\* the ingest job, scheduled with possible overlap, next to the topic API
Next ==
  \/ Ingest
  \/ Serve
  \/ clock + nreq < MaxOps /\ \E q \in ReqIds, body \in CreateInputs : CreateTopic(q, body)
  \/ clock + nreq < MaxOps /\ \E q \in ReqIds, tid \in 1..(nextTopicId - 1),
                                 body \in IngestUpdateInputs : UpdateLoad(q, tid, body)
  \/ clock + nreq < MaxOps /\ \E q \in ReqIds, tid \in 1..(nextTopicId - 1) : DeleteLoad(q, tid)

Spec == Init /\ [][Next]_vars

\* the topic API alone, with concurrent requests
NextApi ==
  \/ Serve
  \/ nreq < MaxApiReqs /\ \E q \in ReqIds, body \in CreateInputs : CreateTopic(q, body)
  \/ nreq < MaxApiReqs /\ \E q \in ReqIds, tid \in 1..(nextTopicId - 1),
                             body \in UpdateInputs : UpdateLoad(q, tid, body)
  \/ nreq < MaxApiReqs /\ \E q \in ReqIds, tid \in 1..(nextTopicId - 1) : DeleteLoad(q, tid)

SpecApi == Init /\ [][NextApi]_vars

ReadOps == {"list_posts", "list_topics", "list_logs", "stats"}

\* no read request has been received
NoRead == \A q \in ReqIds : req[q].op \notin ReadOps

\* the steps by which the read endpoints serve the requests they have received
ServeRead ==
  \/ \E q \in ReqIds : ListPostsSelect(q)
  \/ \E q \in ReqIds : ListTopicsSelect(q)
  \/ \E q \in ReqIds : ListLogsSelect(q)
  \/ \E q \in ReqIds : StatsActive(q)
  \/ \E q \in ReqIds : StatsPosts(q)
  \/ \E q \in ReqIds : StatsLogs(q)

\* one read request arriving at any moment of the ingest job and the topic
\* API, served while the operations then in progress go on
NextRead ==
  \/ NoRead /\ \E r \in RunIds : StartRun(r)
  \/ \E r \in RunIds : FetchFeed(r)
  \/ \E r \in RunIds : FetchUnsupported(r)
  \/ \E r \in RunIds : FetchError(r)
  \/ \E r \in RunIds : CheckEntry(r)
  \/ \E r \in RunIds : InsertPost(r)
  \/ \E r \in RunIds : DeadlockAbort(r)
  \/ \E r \in RunIds : Commit(r)
  \/ Serve
  \/ ServeRead
  \/ NoRead /\ clock + nreq < MaxOps
       /\ \E q \in ReqIds, body \in CreateInputs : CreateTopic(q, body)
  \/ NoRead /\ clock + nreq < MaxOps
       /\ \E q \in ReqIds, tid \in 1..(nextTopicId - 1), body \in UpdateInputs :
            UpdateLoad(q, tid, body)
  \/ NoRead /\ clock + nreq < MaxOps
       /\ \E q \in ReqIds, tid \in 1..(nextTopicId - 1) : DeleteLoad(q, tid)
  \/ NoRead /\ \E q \in ReqIds, page \in PostPages, filter \in PostFilters :
                 ListPostsCount(q, page, filter)
  \/ NoRead /\ \E q \in ReqIds, page \in Pages : ListTopicsCount(q, page)
  \/ NoRead /\ \E q \in ReqIds, page \in LogPages, filter \in LogFilters :
                 ListLogsCount(q, page, filter)
  \/ NoRead /\ \E q \in ReqIds : StatsTopics(q)

SpecRead == Init /\ [][NextRead]_vars

\* ---------------------------------------------------------------- the ingest job alone
\* Stores with two active topics, as POST /api/v1/topics leaves them: the
\* second topic filters by keyword, accepts everything, or has a source
\* without a fetcher.
TopicC == [id |-> 2, name |-> "c", source |-> NodeSeek, feed_url |-> "u2", keywords |-> KwPy,
           is_active |-> TRUE]

TopicCOpen == [TopicC EXCEPT !.keywords = <<>>]

TopicRss == [id |-> 2, name |-> "b", source |-> Rss, feed_url |-> "u1", keywords |-> <<>>,
             is_active |-> TRUE]

JobTopics ==
  {SeedTopics \cup {TopicC}, SeedTopics \cup {TopicCOpen}, SeedTopics \cup {TopicRss}}

\* Feeds in which both urls offer the uid "x", and feeds in which no uid is
\* offered by both.
JobFeeds ==
  FeedChoices \cup { [u \in Urls |-> IF u = "u1" THEN <<RawA, RawC>> ELSE <<RawD>>] }

InitJob ==
  /\ topics \in JobTopics
  /\ posts = {}
  /\ logs = {}
  /\ feeds \in JobFeeds
  /\ run = [r \in RunIds |-> IdleRun]
  /\ req = [q \in ReqIds |-> IdleReq]
  /\ nextTopicId = 3
  /\ nextPostId = 1
  /\ nextLogId = 1
  /\ clock = 0
  /\ nreq = 0
  /\ last = NoLast
  /\ call = NoCall

\* invocations of fetch_all_topics, scheduled with possible overlap, over
\* topics and feeds that do not change
SpecJob == InitJob /\ [][Ingest]_vars

\* ---------------------------------------------------------------- fetchers.py called directly
Texts ==
  {None, <<>>, <<"P", "y">>, <<"x", "P", "y", "x">>, <<"G", "o">>, <<"y", "P">>}

KeywordLists ==
  {<<>>, KwPy, << <<"n", "o">>, <<"G", "o">> >>, << <<>> >>, << <<"p", "y", "x">> >>}

\* raw entries with every combination of absent, empty and present id, guid,
\* link and title; none of them carries a published date
RawEntries ==
  {RawA, RawB, RawC, RawD} \cup
  {[id |-> i, guid |-> g, link |-> l, title |-> t, summary |-> None, content |-> None] :
     i \in {None, <<>>, <<"x">>}, g \in {None, <<"g">>}, l \in {None, <<>>, <<"l">>},
     t \in {None, <<"P", "Y">>}}

Sources == {V2EX, <<"V", "2", "E", "X">>, NodeSeek, LINUXDO, Rss, <<>>}

\* datetime.now(timezone.utc) at two different moments
Nows == {1, 2}

Calls ==
  {[fn |-> "match_keywords", args |-> [text |-> t, keywords |-> k], done |-> FALSE,
    result |-> <<>>] : t \in Texts, k \in KeywordLists}
  \cup
  {[fn |-> "entry_to_dict", args |-> [entry |-> e, source |-> src], done |-> FALSE,
    result |-> <<>>] : e \in RawEntries, src \in {V2EX, NODESEEK}}
  \cup
  {[fn |-> "fetch_feed", args |-> [source |-> src, feed_url |-> u], done |-> FALSE,
    result |-> <<>>] : src \in Sources, u \in Urls}

InitFetchers ==
  /\ topics = {}
  /\ posts = {}
  /\ logs = {}
  /\ feeds \in FeedChoices
  /\ run = [r \in RunIds |-> IdleRun]
  /\ req = [q \in ReqIds |-> IdleReq]
  /\ nextTopicId = 1
  /\ nextPostId = 1
  /\ nextLogId = 1
  /\ clock = 0
  /\ nreq = 0
  /\ last = NoLast
  /\ call \in Calls

CallMatchKeywords ==
  /\ call.fn = "match_keywords"
  /\ ~call.done
  /\ call' = [call EXCEPT !.done = TRUE,
                          !.result = match_keywords(call.args.text, call.args.keywords)]
  /\ UNCHANGED <<topics, posts, logs, feeds, run, req, nextTopicId, nextPostId, nextLogId,
                 clock, nreq, last>>

\* _entry_to_dict, called any number of times on the same entry; an entry
\* without a published date gets datetime.now(timezone.utc)
CallEntryToDict ==
  /\ call.fn = "entry_to_dict"
  /\ \E now \in Nows :
       LET d == entry_to_dict(call.args.entry, call.args.source)
       IN call' = [call EXCEPT !.done = TRUE,
                               !.result = [title |-> d.title, link |-> d.link,
                                           summary |-> d.summary, uid |-> d.uid,
                                           published_at |-> now]]
  /\ UNCHANGED <<topics, posts, logs, feeds, run, req, nextTopicId, nextPostId, nextLogId,
                 clock, nreq, last>>

\* fetch_feed: requests are the GETs issued, fetcher the function the
\* dictionary lookup returned
CallFetchFeed ==
  /\ call.fn = "fetch_feed"
  /\ ~call.done
  /\ LET source == call.args.source
         url == call.args.feed_url
     IN IF ~Supported(source)
        THEN call' = [call EXCEPT !.done = TRUE,
                                  !.result = [error |-> "ValueError", requests |-> <<>>,
                                              fetcher |-> None, entries |-> <<>>]]
        ELSE \E ok \in BOOLEAN :
               call' = [call EXCEPT
                          !.done = TRUE,
                          !.result = [error |-> IF ok THEN "" ELSE "TransportError",
                                      requests |-> <<url>>,
                                      fetcher |-> lower(source),
                                      entries |-> IF ok
                                                  THEN fetch_generic_feed(feeds[url],
                                                                          lower(source))
                                                  ELSE <<>>]]
  /\ UNCHANGED <<topics, posts, logs, feeds, run, req, nextTopicId, nextPostId, nextLogId,
                 clock, nreq, last>>

NextFetchers == CallMatchKeywords \/ CallEntryToDict \/ CallFetchFeed

SpecFetchers == InitFetchers /\ [][NextFetchers]_vars

\* ---------------------------------------------------------------- claims
RunDone(r) == run[r].pc = "done"

RunFailed(r) == run[r].pc = "failed"

\* the action is a step of invocation r
StepOf(r) == run'[r] # run[r]

\* the topics invocation r loaded, and their ids
Loaded(r) == {run[r].topics[i] : i \in 1..Len(run[r].topics)}

LoadedIds(r) == Ids(Loaded(r))

\* what fetch_feed returns for topic t
FeedEntries(t) == fetch_generic_feed(feeds[t.feed_url], lower(t.source))

\* the (topic, entry) positions invocation r is given, over its supported topics
Positions(r) ==
  UNION { {<<i, j>> : j \in 1..Len(FeedEntries(run[r].topics[i]))} :
          i \in {k \in 1..Len(run[r].topics) : Supported(run[r].topics[k].source)} }

EntryAt(r, pos) == FeedEntries(run[r].topics[pos[1]])[pos[2]]

\* C1: in every reachable state, whatever ingest runs (overlapping ones
\* included) and topic requests have happened, no two persisted posts have
\* the same uid.
C1_UidUnique == \A p1, p2 \in posts : p1.uid = p2.uid => p1 = p2

\* Two overlapping runs raced for one uid: one committed its post, the other
\* was aborted by the constraint.
C1_Witness ==
  \E r, o \in RunIds :
    /\ run[r].error = "IntegrityError"
    /\ RunDone(o)
    /\ run[o].made \cap Ids(posts) # {}

\* C2: when a run fails (feed fetch error, unsupported source, storage error)
\* on any topic, the failing step leaves the persisted posts and push logs as
\* they are, the rows the run had written for earlier topics are discarded and
\* never persisted, no result is returned and the error is raised.
C2_FailedRunState(r) ==
  /\ run[r].error \in {"TransportError", "ValueError", "IntegrityError", "DeadlockDetected"}
  /\ run[r].wposts = {}
  /\ run[r].wlogs = {}
  /\ run[r].made \cap Ids(posts) = {}
  /\ \A l \in logs : l.post_id \notin run[r].made

C2_FailingStep(r) ==
  (~RunFailed(r) /\ run'[r].pc = "failed") =>
    /\ posts' = posts
    /\ logs' = logs
    /\ last' = last

C2_FailureDiscardsRun ==
  /\ [](\A r \in RunIds : RunFailed(r) => C2_FailedRunState(r))
  /\ [][\A r \in RunIds : C2_FailingStep(r)]_vars

\* A run failed on the fetch of its second topic after it had created posts
\* for the first.
C2_Witness ==
  \E r \in RunIds :
    /\ RunFailed(r)
    /\ run[r].error = "TransportError"
    /\ Len(run[r].fetched) = 2
    /\ run[r].made # {}

\* C3: a run that finds every entry of its topics' feeds already persisted
\* (and nothing of that deleted meanwhile) never inserts: it creates no post
\* and no push log, returns posts_created = 0, and its commit leaves posts
\* and push logs unchanged.
C3_NoNew(r) ==
  /\ run[r].pc # "idle"
  /\ run[r].pre.posts \subseteq posts
  /\ \A pos \in Positions(r) : EntryAt(r, pos).uid \in Uids(run[r].pre.posts)

C3_NoOpState(r) ==
  /\ run[r].pc # "insert"
  /\ run[r].made = {}
  /\ run[r].wposts = {}
  /\ run[r].wlogs = {}
  /\ run[r].stats.posts_created = 0
  /\ run[r].error \notin {"IntegrityError", "DeadlockDetected"}

C3_NoOpCommit(r) ==
  (C3_NoNew(r) /\ run[r].pc = "commit" /\ run'[r].pc = "done") =>
    /\ posts' = posts
    /\ logs' = logs
    /\ last'.stats.posts_created = 0

C3_RerunIsNoOp ==
  /\ [](\A r \in RunIds : C3_NoNew(r) => C3_NoOpState(r))
  /\ [][\A r \in RunIds : C3_NoOpCommit(r)]_vars

\* A second run over a feed whose entries the first run persisted has
\* returned, having counted duplicates only.
C3_Witness ==
  \E r \in RunIds :
    /\ RunDone(r)
    /\ C3_NoNew(r)
    /\ run[r].prev.valid
    /\ run[r].pre.posts # {}
    /\ Positions(r) # {}
    /\ run[r].stats.duplicates = Cardinality(Positions(r))

\* C4 (as amended): when the pipeline runs twice in succession over the same
\* loaded topics and unchanged feeds, with no other transaction touching posts
\* during or between the two runs, the second run returns posts_created = 0
\* and a duplicates count equal to the number of feed entries, counted over
\* all its topics with repetitions, whose uid is persisted after the first
\* run; that count is at least the first run's posts_created.
C4_Twice(r) ==
  /\ run[r].pc = "commit"
  /\ run'[r].pc = "done"
  /\ run[r].prev.valid
  /\ run[r].prev.alone
  /\ run[r].prev.topics = Loaded(r)
  /\ run[r].prev.posts = run[r].pre.posts
  /\ posts = run[r].pre.posts
  /\ nextPostId = run[r].pre.seq

C4_PersistedEntries(r) ==
  Cardinality({pos \in Positions(r) : EntryAt(r, pos).uid \in Uids(run[r].pre.posts)})

C4_SecondRunCounts(r) ==
  C4_Twice(r) =>
    /\ run[r].stats.posts_created = 0
    /\ run[r].stats.duplicates = C4_PersistedEntries(r)
    /\ run[r].stats.duplicates >= run[r].prev.stats.posts_created

C5_OneLogPerPost ==
  /\ \A p \in posts : Cardinality({l \in logs : l.post_id = p.id}) = 1
  /\ \A l \in logs : l.status = "pending"
  /\ Cardinality(logs) = Cardinality(posts)

\* Posts are persisted while a run that had created posts and logs of its
\* own has failed and lost them.
C5_Witness ==
  /\ posts # {}
  /\ \E r \in RunIds : RunFailed(r) /\ run[r].made # {}

\* the filter of C6, stated over characters: no keywords, or a keyword that
\* reads the same as some stretch of title + " " + summary (parts that are
\* null or empty left out) when letter case is ignored
C6_Text(entry) ==
  IF Truthy(entry.title) /\ Truthy(entry.summary)
  THEN entry.title \o <<" ">> \o entry.summary
  ELSE IF Truthy(entry.title) THEN entry.title
  ELSE IF Truthy(entry.summary) THEN entry.summary
  ELSE <<>>

C6_Occurs(k, text) ==
  \E at \in 0..(Len(text) - Len(k)) :
    \A n \in 1..Len(k) : LowerChar(text[at + n]) = LowerChar(k[n])

C6_Accepts(entry, keywords) ==
  \/ keywords = NullList
  \/ keywords = <<>>
  \/ /\ C6_Text(entry) # <<>>
     /\ \E i \in 1..Len(keywords) : C6_Occurs(keywords[i], C6_Text(entry))

C6_Topic(r) == run[r].topics[run[r].ti]

C6_Entry(r) == run[r].entries[run[r].ei]

\* the post the run makes of its current entry
C6_IsPostOf(p, r) ==
  /\ p.uid = C6_Entry(r).uid
  /\ p.topic_id = C6_Topic(r).id
  /\ p.title = C6_Entry(r).title
  /\ p.content = C6_Entry(r).summary
  /\ p.link = C6_Entry(r).link

\* C6 (as amended): a run goes on to insert a post for an entry of a loaded
\* topic if and only if, when the entry is processed, no post visible to the
\* run has its uid (none committed, before or during the run, and none created
\* earlier in the same run) and the keyword filter accepts title + " " +
\* summary; with an empty or null keyword list every such entry is accepted.
\* The insert creates the post of that entry, unless the store rejects it (the
\* uid was committed by an overlapping run in between, the topic row is gone,
\* or a deadlock), which aborts the run. Posts are created by no other step.
C6_CheckStep(r) ==
  (run[r].pc = "entry") =>
    /\ run'[r].wposts = run[r].wposts
    /\ (run'[r].pc = "insert") <=>
         /\ C6_Entry(r).uid \notin Uids(posts) \cup Uids(run[r].wposts)
         /\ C6_Accepts(C6_Entry(r), C6_Topic(r).keywords)

C6_InsertStep(r) ==
  (run[r].pc = "insert") =>
    \/ /\ run'[r].pc = "failed"
       /\ \/ run'[r].error = "IntegrityError"
             /\ (C6_Entry(r).uid \in Uids(posts) \/ C6_Topic(r).id \notin TopicIds)
          \/ run'[r].error = "DeadlockDetected"
    \/ /\ run'[r].pc # "failed"
       /\ \E p \in run'[r].wposts \ run[r].wposts :
            /\ C6_IsPostOf(p, r)
            /\ run'[r].wposts = run[r].wposts \cup {p}

C6_OtherStep(r) ==
  (run[r].pc \notin {"entry", "insert"}) => run'[r].wposts \subseteq run[r].wposts

C6_CreatesIff ==
  [][/\ \A r \in RunIds : StepOf(r) => C6_CheckStep(r) /\ C6_InsertStep(r) /\ C6_OtherStep(r)
     /\ posts' \subseteq posts \cup AllWrites]_vars

\* C6 as stated: the uid counts as present only if it was persisted before
\* the run or created earlier in the same run, and every entry that is new in
\* that sense and accepted by the filter gets its post.
C6_AsStated ==
  [][\A r \in RunIds :
       StepOf(r) =>
         /\ (run[r].pc = "entry") =>
              ((run'[r].pc = "insert") <=>
                 /\ C6_Entry(r).uid \notin Uids(run[r].pre.posts) \cup Uids(run[r].wposts)
                 /\ C6_Accepts(C6_Entry(r), C6_Topic(r).keywords))
         /\ (run[r].pc = "insert") =>
              \E p \in run'[r].wposts \ run[r].wposts : C6_IsPostOf(p, r)]_vars

\* A run has persisted, for a topic loaded with keywords ["pY"], the post of
\* an entry titled "PY" that has no summary.
C6_Witness ==
  \E r \in RunIds :
    /\ RunDone(r)
    /\ \E p \in posts, t \in Loaded(r) :
         /\ p.id \in run[r].made
         /\ p.topic_id = t.id
         /\ t.keywords = KwPy
         /\ p.title = <<"P", "Y">>
         /\ p.content = None

\* C7: a successful run returns stats in which topics_checked is the number
\* of topics that were active when it loaded them, posts_created is the number
\* of posts, and of push logs, its commit adds to the store, and duplicates
\* counts the processed entries whose uid was visible when they were
\* processed; an entry raises at most one of the two counters.
C7_Present(r) == C6_Entry(r).uid \in Uids(posts) \cup Uids(run[r].wposts)

C7_RunState(r) ==
  /\ run[r].pc \notin {"idle", "failed"} =>
       /\ run[r].stats.topics_checked = Len(run[r].topics)
       /\ run[r].stats.posts_created = Cardinality(run[r].made)
  /\ run[r].pc \notin {"idle", "failed", "done"} =>
       /\ Ids(run[r].wposts) = run[r].made
       /\ Cardinality(run[r].wposts) = Cardinality(run[r].made)
       /\ Cardinality(run[r].wlogs) = Cardinality(run[r].wposts)

C7_Step(r) ==
  /\ (run[r].pc \in {"idle", "done", "failed"}) =>
       run'[r].stats =
         [topics_checked |-> Cardinality({t \in topics : t.is_active}),
          posts_created |-> 0, duplicates |-> 0]
  /\ (run[r].pc = "fetch") => run'[r].stats = run[r].stats
  /\ (run[r].pc = "entry") =>
       /\ run'[r].stats.posts_created = run[r].stats.posts_created
       /\ run'[r].stats.duplicates =
            run[r].stats.duplicates + (IF C7_Present(r) THEN 1 ELSE 0)
       /\ C7_Present(r) => run'[r].pc # "insert"
  /\ (run[r].pc = "insert" /\ run'[r].pc # "failed") =>
       /\ run'[r].stats.posts_created = run[r].stats.posts_created + 1
       /\ run'[r].stats.duplicates = run[r].stats.duplicates
  /\ (run[r].pc = "commit") =>
       /\ run'[r].pc = "done"
       /\ run'[r].stats = run[r].stats
       /\ last'.stats = run[r].stats
       /\ posts \subseteq posts'
       /\ logs \subseteq logs'
       /\ Cardinality(posts' \ posts) = run[r].stats.posts_created
       /\ Cardinality(logs' \ logs) = run[r].stats.posts_created

C7_StatsAreCounts ==
  /\ [](\A r \in RunIds : C7_RunState(r))
  /\ [][\A r \in RunIds : StepOf(r) => C7_Step(r)]_vars

\* A run over two topics has returned with posts created and duplicates
\* counted.
C7_Witness ==
  \E r \in RunIds :
    /\ RunDone(r)
    /\ run[r].stats.topics_checked = 2
    /\ run[r].stats.posts_created > 0
    /\ run[r].stats.duplicates > 0

\* C8: a run loads exactly the topics that are active, fetches the feed of
\* each loaded topic once (all of them if it succeeds) and of no other topic,
\* and creates posts for loaded topics only; a run that finds no active topic
\* returns all-zero stats, fetches nothing and leaves the store unchanged.
C8_RunState(r) ==
  /\ \A t \in Loaded(r) : t.is_active
  /\ Cardinality(LoadedIds(r)) = Len(run[r].topics)
  /\ Len(run[r].fetched) <= Len(run[r].topics)
  /\ \A k \in 1..Len(run[r].fetched) : run[r].fetched[k] = run[r].topics[k].id
  /\ RunDone(r) => Len(run[r].fetched) = Len(run[r].topics)
  /\ \A p \in run[r].wposts : p.topic_id \in LoadedIds(r)
  /\ \A p \in posts : p.id \in run[r].made => p.topic_id \in LoadedIds(r)
  /\ (run[r].pc # "idle" /\ run[r].topics = <<>>) =>
       /\ run[r].stats = ZeroStats
       /\ run[r].fetched = <<>>
       /\ run[r].made = {}
       /\ run[r].pc \in {"commit", "done"}

C8_Step(r) ==
  /\ (run[r].pc \in {"idle", "done", "failed"}) =>
       /\ {run'[r].topics[i] : i \in 1..Len(run'[r].topics)} = {t \in topics : t.is_active}
       /\ run'[r].fetched = <<>>
  /\ (run[r].pc = "commit" /\ run[r].topics = <<>>) =>
       /\ posts' = posts
       /\ logs' = logs
       /\ topics' = topics
       /\ last'.stats = ZeroStats

C8_ActiveTopicsOnly ==
  /\ [](\A r \in RunIds : C8_RunState(r))
  /\ [][\A r \in RunIds : StepOf(r) => C8_Step(r)]_vars

\* A run has returned after persisting a post for the topic it loaded, while
\* an older topic, inactive, was neither loaded nor fetched.
C8_Witness ==
  \E r \in RunIds :
    /\ RunDone(r)
    /\ run[r].made \cap Ids(posts) # {}
    /\ \E t \in topics, u \in Loaded(r) :
         /\ ~t.is_active
         /\ t.id < u.id
         /\ t.id \notin LoadedIds(r)

\* C9: the step that serves a delete-topic request removes that topic, the
\* posts it owns and the push logs of those posts, and nothing else; the
\* aggregate stats read from the resulting store are the counts of what
\* remains.
C9_DeleteStep(q) ==
  (req[q].op = "delete" /\ req[q].pc = "write" /\ req'[q].pc = "done") =>
    LET tid == req[q].tid
        gone == {p \in posts : p.topic_id = tid}
        goneLogs == {l \in logs : \E p \in gone : l.post_id = p.id}
    IN /\ req'[q].resp = 204
       /\ topics' = {t \in topics : t.id # tid}
       /\ posts' = posts \ gone
       /\ logs' = logs \ goneLogs
       /\ get_system_stats(topics', posts', logs') =
            [topics_total |-> Cardinality({t \in topics : t.id # tid}),
             active_topics |-> Cardinality({t \in topics : t.id # tid /\ t.is_active}),
             posts_total |-> Cardinality(posts) - Cardinality(gone),
             logs_total |-> Cardinality(logs) - Cardinality(goneLogs)]

C9_DeleteCascades == [][\A q \in ReqIds : C9_DeleteStep(q)]_vars

\* A delete was served after a run had persisted posts for two topics: the
\* post of the deleted topic and its log are gone, the post of the other topic
\* and its log remain.
C9_Witness ==
  \E q \in ReqIds, r \in RunIds :
    /\ req[q].op = "delete"
    /\ req[q].resp = 204
    /\ RunDone(r)
    /\ ~(run[r].made \subseteq Ids(posts))
    /\ run[r].made \cap Ids(posts) # {}
    /\ \A p \in posts : p.topic_id # req[q].tid
    /\ Cardinality(logs) = Cardinality(run[r].made \cap Ids(posts))

\* C10: in every reachable state of the topic API no two persisted topics
\* have the same name, nor do a persisted topic and one being created, nor two
\* being created; a create is refused exactly when a persisted topic has its
\* name, and goes ahead only when no one else holds the name, so of two
\* concurrent creates with one name the first to insert is accepted and the
\* other refused.
C10_Rows == topics \cup {req[q].row : q \in {x \in ReqIds : req[x].pc = "commit"}}

C10_NamesDistinct ==
  /\ \A t1, t2 \in C10_Rows : t1.name = t2.name => t1.id = t2.id
  /\ \A t1, t2 \in topics : t1.id = t2.id => t1 = t2

C10_InsertStep(q) ==
  (req[q].op = "create" /\ req[q].pc = "insert" /\ req'[q].pc # "insert") =>
    /\ (req'[q].pc = "done" /\ req'[q].resp = 400) <=> req[q].row.name \in Names_(topics)
    /\ (req'[q].pc = "commit") <=> req[q].row.name \notin Names_(C10_Rows)

C10_CommitStep(q) ==
  (req[q].op = "create" /\ req[q].pc = "commit" /\ req'[q].pc # "commit") =>
    /\ req'[q].resp = 201
    /\ topics' = topics \cup {req[q].row}

C10_NameUnique ==
  /\ []C10_NamesDistinct
  /\ [][\A q \in ReqIds : C10_InsertStep(q) /\ C10_CommitStep(q)]_vars

\* The only two requests received were creates with one name, served by two
\* workers at once (the second worker takes a request only while the first is
\* busy); one was answered 201 and its topic is persisted, the other 400.
C10_Witness ==
  \E q, o \in ReqIds :
    /\ nreq = 2
    /\ req[q].op = "create" /\ req[q].pc = "done" /\ req[q].resp = 201
    /\ req[o].op = "create" /\ req[o].pc = "done" /\ req[o].resp = 400
    /\ req[q].row.name = req[o].row.name
    /\ req[q].row \in topics
    /\ req[o].row.name \notin Names_(SeedTopics)

\* C11: a create whose name a persisted topic already has is answered with a
\* 4xx status, not a 5xx; the step leaves every topic, post and push log as
\* it was, and the worker that answered is free for the next request.
C11_RefusedCreate(q) ==
  (/\ req[q].op = "create"
   /\ req[q].pc = "insert"
   /\ req'[q].pc # "insert"
   /\ req[q].row.name \in Names_(topics)) =>
    /\ req'[q].pc = "done"
    /\ req'[q].resp \in 400..499
    /\ topics' = topics
    /\ posts' = posts
    /\ logs' = logs

C11_DuplicateCreate ==
  /\ [](\A q \in ReqIds : req[q].resp >= 400 => req[q].pc = "done")
  /\ [][\A q \in ReqIds : C11_RefusedCreate(q)]_vars

\* One worker served two requests in turn: a create with the name of the
\* seeded topic, refused (it used up topic id 2), then a create that was
\* answered 201 and persisted as topic 3 next to the untouched original.
C11_Witness ==
  /\ nreq = 2
  /\ req[2].pc = "idle"
  /\ SeedTopics \subseteq topics
  /\ Ids(topics) = {1, 3}
  /\ req[1].op = "create" /\ req[1].pc = "done" /\ req[1].resp = 201

\* C12: an update that sets the name of a topic to the name of another
\* persisted topic is answered with a 4xx status, and the step leaves every
\* topic as it was, the other fields sent in the same request included.
C12_Conflicts(q) ==
  /\ req[q].op = "update"
  /\ req[q].pc = "write"
  /\ req[q].tid \in TopicIds
  /\ "name" \in DOMAIN req[q].body.vals
  /\ \E t \in topics : t.id # req[q].tid /\ t.name = req[q].body.vals.name

C12_RefusedUpdate(q) ==
  (C12_Conflicts(q) /\ req'[q].pc = "done") =>
    /\ req'[q].resp \in 400..499
    /\ topics' = topics
    /\ posts' = posts
    /\ logs' = logs

C12_DuplicateRename == [][\A q \in ReqIds : C12_RefusedUpdate(q)]_vars

\* A request to rename the seeded topic to the name of a second topic and to
\* deactivate it was answered 400; both topics are as they were, the seeded
\* one still named "a" and active.
C12_Witness ==
  \E q \in ReqIds :
    /\ req[q].op = "update" /\ req[q].pc = "done" /\ req[q].resp = 400
    /\ req[q].tid = 1
    /\ req[q].body = Body([name |-> "b", is_active |-> FALSE], {})
    /\ SeedTopics \subseteq topics
    /\ \E t \in topics : t.id # 1 /\ t.name = "b"
    /\ nreq = 2
    /\ req[2].pc = "idle"

\* the persisted topic with id tid, before and after a step
C13_Before(tid) == CHOOSE t \in topics : t.id = tid

C13_After(tid) == CHOOSE t \in topics' : t.id = tid

\* C13: the step by which an update request is answered 200 leaves the topic
\* with every field of the request at the supplied value and every other
\* field as it was, and leaves every other topic, every post and every push
\* log unchanged.
C13_SuccessfulUpdate(q) ==
  (/\ req[q].op = "update"
   /\ req[q].pc = "write"
   /\ req'[q].pc = "done"
   /\ req'[q].resp = 200) =>
    LET tid == req[q].tid
        sent == DOMAIN req[q].body.vals
    IN /\ tid \in TopicIds
       /\ tid \in Ids(topics')
       /\ \A f \in sent : C13_After(tid)[f] = req[q].body.vals[f]
       /\ \A f \in DOMAIN C13_Before(tid) \ sent : C13_After(tid)[f] = C13_Before(tid)[f]
       /\ {t \in topics' : t.id # tid} = {t \in topics : t.id # tid}
       /\ posts' = posts
       /\ logs' = logs

C13_ExactlyTheFieldsSent == [][\A q \in ReqIds : C13_SuccessfulUpdate(q)]_vars

\* ---------------------------------------------------------------- C14
\* the posts that satisfy every supplied filter of a list-posts request
C14_Matching(filter) ==
  {p \in posts :
     /\ filter.topic_id = {} \/ p.topic_id \in filter.topic_id
     /\ filter.source = {} \/ \E t \in topics : t.id = p.topic_id /\ t.source \in filter.source}

\* s lists every post of S once, most recently created first
C14_RecentFirst(s, S) ==
  /\ Len(s) = Cardinality(S)
  /\ \A p \in S : \E i \in 1..Len(s) : s[i] = p
  /\ \A i \in 1..Len(s) : \A j \in 1..Len(s) : i < j => s[i].created_at >= s[j].created_at

\* the count statement of list posts: total is the number of posts that
\* satisfy the filters, whatever the page
C14_CountStep(q) ==
  (req[q].pc \in {"idle", "done"} /\ req'[q].op = "list_posts" /\ req'[q].pc = "select") =>
    /\ req'[q].out.total = Cardinality(C14_Matching(req'[q].body.filter))
    /\ req'[q].out.items = <<>>

\* the select statement: items are elements skip+1..skip+limit of the
\* matching posts, most recently created first; total is answered as counted
C14_SelectStep(q) ==
  (req[q].op = "list_posts" /\ req[q].pc = "select" /\ req'[q] # req[q]) =>
    LET page == req[q].body.page
        S == C14_Matching(req[q].body.filter)
        items == req'[q].out.items
    IN /\ req'[q].pc = "done"
       /\ req'[q].resp = 200
       /\ req'[q].out.total = req[q].out.total
       /\ \E s \in [1..Cardinality(S) -> S] :
            /\ C14_RecentFirst(s, S)
            /\ Len(items) = Cardinality({i \in 1..Len(s) : page.skip < i /\ i <= page.skip + page.limit})
            /\ \A k \in 1..Len(items) : items[k] = s[page.skip + k]
       /\ S = {} => items = <<>>

\* C14: list posts with (skip, limit, optional topic_id, optional source)
\* returns total equal to the number of posts satisfying all supplied
\* filters, independent of skip and limit, and items equal to the elements
\* skip+1..skip+limit of the matching posts ordered most recently created
\* first, each as of the statement that reads it; a filter matching no
\* post gives total 0 and no items.
C14_ListPosts ==
  /\ [](\A q \in ReqIds : (req[q].op = "list_posts" /\ req[q].pc = "done") => req[q].resp = 200)
  /\ [][\A q \in ReqIds : C14_CountStep(q) /\ C14_SelectStep(q)]_vars

\* a list-posts request with a source filter and page (skip 0, limit 2) has
\* answered total 1 and the one matching post, while the store holds two
\* posts, the other one excluded by the filter
C14_Witness ==
  \E q \in ReqIds :
    /\ req[q].op = "list_posts" /\ req[q].pc = "done"
    /\ req[q].body.filter = [topic_id |-> {}, source |-> {V2EX}]
    /\ req[q].body.page = [skip |-> 0, limit |-> 2]
    /\ req[q].out.total = 1
    /\ Len(req[q].out.items) = 1
    /\ Cardinality(posts) = 2
    /\ C14_Matching(req[q].body.filter) = {req[q].out.items[1]}

\* ---------------------------------------------------------------- C15
\* min(limit, max(0, total - skip))
C15_PageLength(total, page) ==
  IF total <= page.skip THEN 0
  ELSE IF total - page.skip < page.limit THEN total - page.skip ELSE page.limit

\* the answer of a finished list-topics request is a page of the topics of
\* the store: total counts all of them and items are elements
\* skip+1..skip+limit of the topics in ascending id order
C15_Answer(q) ==
  (req[q].op = "list_topics" /\ req[q].pc = "select" /\ req'[q] # req[q]) =>
    LET page == req[q].body.page
        items == req'[q].out.items
    IN /\ req'[q].pc = "done"
       /\ req'[q].resp = 200
       /\ req'[q].out.total = req[q].out.total
       /\ Len(items) = C15_PageLength(req'[q].out.total, page)
       /\ \A k \in 1..Len(items) :
            /\ items[k] \in topics
            /\ Cardinality({t \in topics : t.id < items[k].id}) = page.skip + k - 1

\* the count statement of list topics counts every topic, whatever the page
C15_CountStep(q) ==
  (req[q].pc \in {"idle", "done"} /\ req'[q].op = "list_topics" /\ req'[q].pc = "select") =>
    req'[q].out.total = Cardinality(topics)

\* C15: list topics returns total equal to the number of all topics for
\* every skip and limit, and items equal to elements skip+1..skip+limit of
\* the topics in ascending id order, so that
\* len(items) = min(limit, max(0, total - skip)) and skip >= total gives no
\* items.
C15_ListTopics == [][\A q \in ReqIds : C15_CountStep(q) /\ C15_Answer(q)]_vars

\* ---------------------------------------------------------------- C16
C16_Stats(q) == req[q].op = "stats" /\ req[q].pc # "done"

\* each statement of the stats request stores the count of the rows
\* committed when it executes and leaves the counts already taken alone
C16_Step(q) ==
  LET old == req[q].out.counts
      new == req'[q].out.counts
  IN /\ (req[q].pc \in {"idle", "done"} /\ req'[q].op = "stats" /\ req'[q].pc # "done") =>
          new.topics_total = Cardinality(topics)
     /\ (C16_Stats(q) /\ req[q].pc = "active" /\ req'[q] # req[q]) =>
          /\ new.active_topics = Cardinality({t \in topics : t.is_active = TRUE})
          /\ new.topics_total = old.topics_total
          /\ old.topics_total = Cardinality(topics) => new.active_topics <= new.topics_total
     /\ (C16_Stats(q) /\ req[q].pc = "posts" /\ req'[q] # req[q]) =>
          /\ new.posts_total = Cardinality(posts)
          /\ new.topics_total = old.topics_total /\ new.active_topics = old.active_topics
     /\ (C16_Stats(q) /\ req[q].pc = "logs" /\ req'[q] # req[q]) =>
          /\ new.logs_total = Cardinality(logs)
          /\ new.topics_total = old.topics_total /\ new.active_topics = old.active_topics
          /\ new.posts_total = old.posts_total
          /\ req'[q].pc = "done" /\ req'[q].resp = 200
          /\ (topics = {} /\ posts = {} /\ logs = {} /\ old.topics_total = 0
                /\ old.active_topics = 0 /\ old.posts_total = 0) =>
               new = [topics_total |-> 0, active_topics |-> 0, posts_total |-> 0,
                      logs_total |-> 0]

\* C16 (amended): the aggregate stats operation takes four counts one after
\* the other; each equals the number of topics, of topics with is_active
\* true, of posts and of push logs committed when its own query executes,
\* so active_topics <= topics_total when the number of topics has not
\* changed between the first two queries, and all four are 0 on a store
\* that is empty throughout.
C16_IndependentCounts == [][\A q \in ReqIds : C16_Step(q)]_vars

\* C16 as stated: every stats answer has active_topics <= topics_total
C16_AsStated ==
  \A q \in ReqIds :
    (req[q].op = "stats" /\ req[q].pc = "done") =>
      req[q].out.counts.active_topics <= req[q].out.counts.topics_total

\* a stats request has answered one topic, none active, one post and one
\* push log, which is what the store holds
C16_Witness ==
  \E q \in ReqIds :
    /\ req[q].op = "stats" /\ req[q].pc = "done" /\ req[q].resp = 200
    /\ req[q].out.counts = [topics_total |-> 1, active_topics |-> 0, posts_total |-> 1,
                            logs_total |-> 1]
    /\ Cardinality(topics) = 1 /\ Cardinality(posts) = 1 /\ Cardinality(logs) = 1
    /\ \A t \in topics : t.is_active = FALSE

\* ---------------------------------------------------------------- C17
\* k, lower-cased, occurs as a contiguous substring of text, lower-cased
C17_Occurs(k, text) ==
  \E i \in 1..(Len(text) + 1) : \E j \in 0..Len(text) :
    /\ j - i + 1 = Len(k)
    /\ \A n \in 1..Len(k) : LowerChar(k[n]) = LowerChar(text[i + n - 1])

C17_Expected(text, keywords) ==
  IF keywords = <<>> THEN TRUE
  ELSE IF text = None \/ text = <<>> THEN FALSE
  ELSE \E n \in 1..Len(keywords) : C17_Occurs(keywords[n], text)

\* C17: match_keywords(text, keywords) is true when keywords is empty (also
\* for null or empty text), false when keywords is non-empty and text is
\* null or empty, and otherwise true exactly when at least one keyword,
\* lower-cased, occurs as a contiguous substring of the lower-cased text.
C17_MatchKeywords ==
  (call.fn = "match_keywords" /\ call.done) =>
    call.result = C17_Expected(call.args.text, call.args.keywords)

\* match_keywords has returned true for a text that holds the keyword in
\* its middle and in another spelling
C17_Witness ==
  /\ call.fn = "match_keywords" /\ call.done
  /\ call.args = [text |-> <<"x", "P", "y", "x">>, keywords |-> KwPy]
  /\ call.result = TRUE

\* ---------------------------------------------------------------- C18
C18_Present(v) == v # None /\ Len(v) > 0

C18_Title(entry) == IF entry.title = None THEN <<>> ELSE entry.title

\* id, else guid, else link, else source + ":" + title
C18_Uid(entry, source) ==
  IF C18_Present(entry.id) THEN entry.id
  ELSE IF C18_Present(entry.guid) THEN entry.guid
  ELSE IF C18_Present(entry.link) THEN entry.link
  ELSE source \o <<":">> \o C18_Title(entry)

C18_Normalised == call.fn = "entry_to_dict" /\ call.done

\* C18: the normalized uid of a raw entry is its id if non-empty, else its
\* guid if non-empty, else its link if non-empty, else source + ":" + title;
\* it is never empty, and normalizing the same raw entry again for the same
\* source yields the same uid.
C18_UidDerivation ==
  /\ [](C18_Normalised =>
          /\ call.result.uid = C18_Uid(call.args.entry, call.args.source)
          /\ call.result.uid # None
          /\ Len(call.result.uid) > 0)
  /\ [][(C18_Normalised /\ C18_Normalised' /\ call'.args = call.args) =>
          call'.result.uid = call.result.uid]_vars

\* an entry without id, guid, link and title has been normalized at the
\* later of the two moments and has the uid "v2ex:"
C18_Witness ==
  /\ C18_Normalised
  /\ call.args.entry = [id |-> None, guid |-> None, link |-> <<>>, title |-> None,
                         summary |-> None, content |-> None]
  /\ call.args.source = V2EX
  /\ call.result.published_at = 2
  /\ call.result.uid = <<"v", "2", "e", "x", ":">>

\* ---------------------------------------------------------------- C19
\* source is a spelling of name: the same letters, upper or lower case
C19_Spells(source, name) ==
  /\ Len(source) = Len(name)
  /\ \A i \in 1..Len(name) : LowerChar(source[i]) = name[i]

C19_Fetched == call.fn = "fetch_feed" /\ call.done

\* C19: fetch_feed(source, url) fails with an unsupported-source error,
\* before any network fetch is issued, whenever the lower-cased source is
\* not one of v2ex, nodeseek, linux.do; for any upper/lower-case spelling of
\* a supported source it dispatches to that source's fetcher and issues
\* exactly one fetch.
C19_FetchFeedDispatch ==
  C19_Fetched =>
    LET source == call.args.source
        names == {V2EX, NODESEEK, LINUXDO}
    IN IF \E name \in names : C19_Spells(source, name)
       THEN /\ call.result.error # "ValueError"
            /\ C19_Spells(source, call.result.fetcher)
            /\ call.result.fetcher \in names
            /\ call.result.requests = <<call.args.feed_url>>
       ELSE /\ call.result.error = "ValueError"
            /\ call.result.requests = <<>>

\* fetch_feed has dispatched the spelling "NodeSeek" to the nodeseek fetcher,
\* which fetched the url once and returned its entries
C19_Witness ==
  /\ C19_Fetched
  /\ call.args = [source |-> NodeSeek, feed_url |-> "u2"]
  /\ call.result.fetcher = NODESEEK
  /\ call.result.error = ""
  /\ call.result.requests = <<"u2">>
  /\ Len(call.result.entries) = 2

\* ---------------------------------------------------------------- C20
\* C20: in every reachable state the source of every persisted topic is one
\* of the closed set {v2ex, nodeseek, linux.do} (in any upper/lower-case
\* spelling), whatever create-topic and update-topic requests were accepted.
C20_SourceClosed ==
  \A t \in topics : \E name \in {V2EX, NODESEEK, LINUXDO} : C19_Spells(t.source, name)

\* ---------------------------------------------------------------- C21
\* a post and a push log without the ids the sequences gave them
C21_Post(p) ==
  [topic_id |-> p.topic_id, title |-> p.title, content |-> p.content, link |-> p.link,
   uid |-> p.uid, created_at |-> p.created_at]

C21_Log(l, ps) ==
  [uid |-> (CHOOSE p \in ps : p.id = l.post_id).uid, status |-> l.status,
   created_at |-> l.created_at]

\* what a run over the active topics in the given order, started now and
\* not interleaved with anything, would persist and return
C21_Outcome(order) ==
  LET res == fetch_all_topics(order, posts, nextPostId, nextLogId, clock + 1)
  IN [ok |-> res.ok,
      posts |-> {C21_Post(p) : p \in res.posts},
      logs |-> {C21_Log(l, res.posts) : l \in res.logs},
      stats |-> res.stats]

\* some uid is offered by the feeds of two different active topics
C21_SharedUid ==
  \E t, u \in get_active_topics :
    /\ t.id # u.id
    /\ \E i \in 1..Len(FeedEntries(t)) : \E j \in 1..Len(FeedEntries(u)) :
         FeedEntries(t)[i].uid = FeedEntries(u)[j].uid

\* the step by which a run commits, when no other transaction has committed
\* posts or used the posts.id sequence since it began, does to the store
\* what fetch_all_topics computes for the order the run was given
C21_CommitStep(r) ==
  (run[r].pc = "commit" /\ run'[r].pc = "done" /\ last'.alone /\ last = run[r].prev) =>
    LET res == fetch_all_topics(run[r].topics, run[r].pre.posts, run[r].pre.seq,
                                nextLogId - Cardinality(run[r].wlogs), run[r].now)
    IN /\ res.ok
       /\ posts' = posts \cup res.posts
       /\ logs' = logs \cup res.logs
       /\ last'.stats = res.stats

\* C21 (amended): for every set of active topics and feeds, successful runs
\* that process the active topics in different orders persist posts with
\* the same uids and as many push logs, and return the same topics_checked
\* and posts_created; when no uid is offered by the feeds of two active
\* topics the posts (owning topic_id included), the push logs and all stats
\* are the same for every order.
C21_OrderIndependence ==
  /\ [](\A o1, o2 \in Orders(get_active_topics) :
          LET a == C21_Outcome(o1)
              b == C21_Outcome(o2)
          IN /\ a.ok = b.ok
             /\ {p.uid : p \in a.posts} = {p.uid : p \in b.posts}
             /\ Cardinality(a.logs) = Cardinality(b.logs)
             /\ a.stats.topics_checked = b.stats.topics_checked
             /\ a.stats.posts_created = b.stats.posts_created
             /\ ~C21_SharedUid => a = b)
  /\ [][\A r \in RunIds : C21_CommitStep(r)]_vars

\* C21 as stated: the persisted posts with their owning topic_id, the push
\* logs and the returned stats are the same for every order
C21_AsStated ==
  \A o1, o2 \in Orders(get_active_topics) : C21_Outcome(o1) = C21_Outcome(o2)

\* a run over two active topics, with nothing interleaved, has committed a
\* post for each of them
C21_Witness ==
  \E r \in RunIds :
    /\ RunDone(r) /\ last.valid /\ last.alone
    /\ Len(run[r].topics) = 2
    /\ \E p, q \in posts : p.topic_id # q.topic_id /\ {p.id, q.id} \subseteq run[r].made

\* ---------------------------------------------------------------- C22
\* the topic and the entry run r is about to examine
C22_Topic(r) == run[r].topics[run[r].ti]

C22_Entry(r) == run[r].entries[run[r].ei]

\* the uid of the entry is among the posts the run can see
C22_Present(r) ==
  \E p \in posts \cup run[r].wposts : p.uid = C22_Entry(r).uid

C22_Examines(r) == run[r].pc = "entry" /\ StepOf(r)

C22_Step(r) ==
  /\ (C22_Examines(r) /\ C22_Present(r)) =>
       /\ run'[r].stats = [run[r].stats EXCEPT !.duplicates = @ + 1]
       /\ run'[r].pc # "insert"
       /\ run'[r].wposts = run[r].wposts /\ run'[r].wlogs = run[r].wlogs
  /\ (C22_Examines(r) /\ ~C22_Present(r)
        /\ ~should_keep_entry(C22_Entry(r), C22_Topic(r).keywords)) =>
       /\ run'[r].stats = run[r].stats
       /\ run'[r].pc # "insert"
       /\ run'[r].wposts = run[r].wposts /\ run'[r].wlogs = run[r].wlogs

\* C22: in fetch_all_topics the duplicate check precedes the keyword test:
\* an entry whose uid is already present increments duplicates and creates
\* nothing whether or not it matches the topic's keywords, and an entry with
\* a new uid that fails the keyword test increments neither posts_created
\* nor duplicates.
C22_DuplicateBeforeKeywords == [][\A r \in RunIds : C22_Step(r)]_vars

\* a run has counted as a duplicate the entry "Go" of topic c, which has the
\* uid of a post the run made for topic a and does not match c's keyword
C22_Witness ==
  \E r \in RunIds :
    /\ run[r].pc = "entry"
    /\ run[r].topics[2] = TopicC /\ run[r].ti = 2 /\ run[r].ei = 2
    /\ run[r].entries[1].uid \in Uids(run[r].wposts)
    /\ ~should_keep_entry(run[r].entries[1], TopicC.keywords)
    /\ run[r].stats.duplicates = 2
    /\ run[r].stats.posts_created = 1

\* ---------------------------------------------------------------- C23
\* the inner loop of a pipeline that tests the keywords first and the
\* duplicate afterwards
C23_process_entry(acc, topic, entry, committed, now) ==
  IF ~should_keep_entry(entry, topic.keywords)
  THEN acc
  ELSE IF entry.uid \in Uids(committed) \cup Uids(acc.wposts)
       THEN [acc EXCEPT !.stats = CountDuplicate(@)]
       ELSE LET post == NewPost(acc.seq, topic, entry, now)
            IN [acc EXCEPT !.wposts = @ \cup {post},
                           !.wlogs = @ \cup {NewLog(acc.logseq, post, now)},
                           !.stats = CountCreated(@),
                           !.seq = @ + 1, !.logseq = @ + 1]

RECURSIVE C23_process_entries(_, _, _, _)
C23_process_entries(pairs, acc, committed, now) ==
  IF Len(pairs) = 0 THEN acc
  ELSE C23_process_entries(Tail(pairs),
                           C23_process_entry(acc, Head(pairs).topic, Head(pairs).entry,
                                             committed, now),
                           committed, now)

C23_keywords_first(order, committed, seq, logseq, now) ==
  LET start == [wposts |-> {}, wlogs |-> {}, seq |-> seq, logseq |-> logseq,
                stats |-> [ZeroStats EXCEPT !.topics_checked = Len(order)]]
      ok == \A i \in 1..Len(order) : Supported(order[i].source)
      acc == IF ok THEN C23_process_entries(TopicEntries(order), start, committed, now)
             ELSE start
  IN [ok |-> ok, posts |-> acc.wposts, logs |-> acc.wlogs, stats |-> acc.stats]

\* the two pipelines started on the present store
C23_KeywordsFirst(order) == C23_keywords_first(order, posts, nextPostId, nextLogId, clock + 1)

C23_AsInCode(order) == fetch_all_topics(order, posts, nextPostId, nextLogId, clock + 1)

\* C23: from every store and for every feed content and topic order, a
\* pipeline that tests keywords first and then duplicates persists the same
\* posts and push logs and returns the same posts_created as
\* fetch_all_topics; only the duplicates counter may differ.
C23_SameFinalState ==
  \A order \in Orders(get_active_topics) :
    LET a == C23_AsInCode(order)
        b == C23_KeywordsFirst(order)
    IN /\ a.ok = b.ok
       /\ a.posts = b.posts
       /\ a.logs = b.logs
       /\ a.stats.posts_created = b.stats.posts_created
       /\ a.stats.topics_checked = b.stats.topics_checked
       /\ a.stats.duplicates >= b.stats.duplicates

\* the first run has committed, with nothing interleaved, the posts that the
\* keywords-first pipeline would have created, and has counted more
\* duplicates than that pipeline would have
C23_Witness ==
  \E r \in RunIds :
    LET b == C23_keywords_first(run[r].topics, {}, 1, 1, run[r].now)
    IN /\ RunDone(r) /\ run[r].now = 1 /\ clock = 1
       /\ run[r].made # {}
       /\ posts = b.posts /\ logs = b.logs
       /\ run[r].stats.posts_created = b.stats.posts_created
       /\ run[r].stats.duplicates > b.stats.duplicates

\* ---------------------------------------------------------------- C24
\* run r is about to insert a post for a uid that another run has inserted:
\* committed in the meantime, or still pending
C24_Committed(r) ==
  run[r].pc = "insert" /\ \E p \in posts : p.uid = run[r].entries[run[r].ei].uid

C24_Pending(r) ==
  /\ run[r].pc = "insert"
  /\ \E o \in RunIds \ {r} : \E p \in run[o].wposts : p.uid = run[r].entries[run[r].ei].uid

C24_Aborted(r) ==
  /\ run'[r].pc = "failed"
  /\ run'[r].error \in {"IntegrityError", "DeadlockDetected"}
  /\ run'[r].wposts = {} /\ run'[r].wlogs = {}
  /\ posts' = posts /\ logs' = logs

C24_Step(r) ==
  /\ (C24_Committed(r) /\ StepOf(r)) => (C24_Aborted(r) /\ run'[r].error = "IntegrityError")
  /\ (C24_Pending(r) /\ StepOf(r)) => (C24_Aborted(r) /\ run'[r].error = "DeadlockDetected")
  /\ (run[r].pc = "commit" /\ StepOf(r)) =>
       /\ run'[r].pc = "done"
       /\ posts' = posts \cup run[r].wposts
       /\ logs' = logs \cup run[r].wlogs

\* C24: when two ingest runs overlap and both try to create a post for the
\* same uid, the uniqueness constraint lets only one of them create it;
\* the other run aborts with the error and none of its changes, posts for
\* other uids included, are persisted, while a run that commits persists
\* all of its posts and push logs.
C24_OverlappingRuns ==
  /\ [](\A r \in RunIds :
          /\ \A p \in run[r].wposts :
               /\ p.uid \notin Uids(posts)
               /\ \A o \in RunIds \ {r} : p.uid \notin Uids(run[o].wposts)
          /\ RunFailed(r) =>
               /\ run[r].made \cap Ids(posts) = {}
               /\ \A l \in logs : l.post_id \notin run[r].made)
  /\ [][\A r \in RunIds : C24_Step(r)]_vars

\* one run has committed its post for a uid; the overlapping run, which had
\* created a post for another uid before it tried the same uid, has
\* aborted with the constraint's error and left nothing
C24_Witness ==
  \E r, o \in RunIds :
    /\ RunFailed(r) /\ run[r].error = "IntegrityError"
    /\ run[r].made # {}
    /\ RunDone(o) /\ run[o].made # {}
    /\ run[o].now < run[r].now /\ run[r].pre.posts = {}
    /\ Ids(posts) = run[o].made
    /\ {l.post_id : l \in logs} = run[o].made

\* ---------------------------------------------------------------- C25
\* the answer of a list-posts request is the window of every listing of the
\* matching posts that is most recently created first: the store and the
\* parameters determine it
C25_Determined(q) ==
  (req[q].op = "list_posts" /\ req[q].pc = "select" /\ req'[q] # req[q]) =>
    LET page == req[q].body.page
        S == C14_Matching(req[q].body.filter)
        items == req'[q].out.items
    IN \A s \in [1..Cardinality(S) -> S] :
         C14_RecentFirst(s, S) =>
           /\ Len(items) = Cardinality({i \in 1..Len(s) : page.skip < i /\ i <= page.skip + page.limit})
           /\ \A k \in 1..Len(items) : items[k] = s[page.skip + k]

\* C25: the order of list posts is stable: over an unchanged store every
\* request returns its window of one and the same descending-creation
\* order, so that consecutive windows return every matching post exactly
\* once, also when several posts have the same created_at.
C25_StableOrder == [][\A q \in ReqIds : C25_Determined(q)]_vars

\* ---------------------------------------------------------------- C26
\* no other run is in progress and nothing was committed to posts since run
\* r began
C26_Alone(r) ==
  /\ \A o \in RunIds \ {r} : run[o].pc \in {"idle", "done", "failed"}
  /\ posts = run[r].pre.posts

C26_Step(r) ==
  /\ (run[r].pc = "insert" /\ StepOf(r) /\ C26_Alone(r) /\ ~TopicMissing(run[r].topics[run[r].ti].id)) =>
       /\ run'[r].pc # "failed"
       /\ \E p \in run'[r].wposts :
            /\ p.uid = run[r].entries[run[r].ei].uid
            /\ p \notin run[r].wposts
       /\ Cardinality(run'[r].wposts) = Cardinality(Uids(run'[r].wposts))
  /\ (run[r].pc = "entry" /\ StepOf(r)
        /\ run[r].entries[run[r].ei].uid \in Uids(run[r].wposts)) =>
       /\ run'[r].stats = [run[r].stats EXCEPT !.duplicates = @ + 1]
       /\ run'[r].wposts = run[r].wposts
       /\ run'[r].pc \notin {"insert", "failed"}

\* C26: a run executing alone never aborts on the uid uniqueness
\* constraint: when the same uid occurs more than once in one run, in the
\* same feed or in the feeds of two active topics, the first accepted
\* occurrence creates the single post and every later occurrence sees it
\* through the run's own uncommitted writes and is counted as a duplicate.
C26_AloneNeverAborts == [][\A r \in RunIds : C26_Step(r)]_vars

\* the only run there has been has finished: it created one post for the
\* uid that the feed of topic a offers twice and the feed of topic c once,
\* and counted the two later occurrences as duplicates
C26_Witness ==
  \E r \in RunIds :
    /\ RunDone(r) /\ clock = 1
    /\ run[r].topics = <<CHOOSE t \in SeedTopics : TRUE, TopicCOpen>>
    /\ Len(feeds["u2"]) = 2
    /\ run[r].stats = [topics_checked |-> 2, posts_created |-> 2, duplicates |-> 2]
    /\ Cardinality({p \in posts : p.uid = <<"x">>}) = 1
    /\ \A p \in posts : p.uid = <<"x">> => p.topic_id = 1

\* ---------------------------------------------------------------- C27
\* C27: referential integrity holds in every reachable state, also when a
\* delete-topic request interleaves with an ingest run that already loaded
\* that topic: every persisted post refers to an existing topic and every
\* persisted push log refers to an existing post.
C27_ReferentialIntegrity ==
  /\ \A p \in posts : \E t \in topics : t.id = p.topic_id
  /\ \A l \in logs : \E p \in posts : p.id = l.post_id

\* a run that had loaded topic 1 and fetched its feed has failed on the
\* INSERT after a delete-topic request removed the topic; no post is
\* persisted
C27_Witness ==
  \E r \in RunIds, q \in ReqIds :
    /\ req[q].op = "delete" /\ req[q].pc = "done" /\ req[q].resp = 204 /\ req[q].tid = 1
    /\ RunFailed(r) /\ run[r].error = "IntegrityError"
    /\ 1 \in LoadedIds(r) /\ 1 \in {run[r].fetched[i] : i \in 1..Len(run[r].fetched)}
    /\ 1 \notin TopicIds
    /\ posts = {}

\* ---------------------------------------------------------------- C28
\* the ids of the posts that runs which have not committed have created:
\* runs in progress and runs that were rolled back
C28_Uncommitted == UNION {run[r].made : r \in {x \in RunIds : run[x].pc # "done"}}

C28_ItemIds(q) == {req[q].out.items[i].id : i \in 1..Len(req[q].out.items)}

C28_PostIds(q) == {req[q].out.items[i].post_id : i \in 1..Len(req[q].out.items)}

\* each statement of a read counts and takes committed rows only, and with
\* each post it takes, the push log created with it is committed too
C28_ReadStep(q) ==
  /\ (req[q].op = "list_posts" /\ req[q].pc = "select" /\ req'[q] # req[q]) =>
       /\ \A i \in 1..Len(req'[q].out.items) :
            /\ req'[q].out.items[i] \in posts
            /\ \E l \in logs : l.post_id = req'[q].out.items[i].id /\ l.status = "pending"
  /\ (req[q].pc = "idle" /\ req'[q].op = "list_posts") =>
       req'[q].out.total <= Cardinality(posts)
  /\ (req[q].pc = "idle" /\ req'[q].op = "list_logs") =>
       req'[q].out.total <= Cardinality(logs)
  /\ (req[q].op = "list_logs" /\ req[q].pc = "select" /\ req'[q] # req[q]) =>
       \A i \in 1..Len(req'[q].out.items) :
         /\ req'[q].out.items[i] \in logs
         /\ \E p \in posts : p.id = req'[q].out.items[i].post_id
  /\ (req[q].op = "stats" /\ req[q].pc = "posts" /\ req'[q] # req[q]) =>
       req'[q].out.counts.posts_total = Cardinality(posts)
  /\ (req[q].op = "stats" /\ req[q].pc = "logs" /\ req'[q] # req[q]) =>
       req'[q].out.counts.logs_total = Cardinality(logs)

\* C28: a read operation (list posts, list push logs, aggregate stats) that
\* runs while an ingest run is in progress observes only committed runs: it
\* never returns a post created by a run that has not committed or that
\* later rolls back, and never returns a post whose pending push log is not
\* also visible.
C28_ReadsSeeCommittedOnly ==
  /\ [](\A q \in ReqIds :
          /\ (req[q].op = "list_posts" /\ req[q].pc = "done") =>
               C28_ItemIds(q) \cap C28_Uncommitted = {}
          /\ (req[q].op = "list_logs" /\ req[q].pc = "done") =>
               C28_PostIds(q) \cap C28_Uncommitted = {})
  /\ [][\A q \in ReqIds : C28_ReadStep(q)]_vars

\* a list-posts request for the first two posts has answered the one
\* committed post while a run in progress holds a pending post
C28_Witness ==
  \E q \in ReqIds, r \in RunIds :
    /\ req[q].op = "list_posts" /\ req[q].pc = "done"
    /\ req[q].body = [page |-> [skip |-> 0, limit |-> 2],
                       filter |-> [topic_id |-> {}, source |-> {}]]
    /\ Len(req[q].out.items) = 1 /\ req[q].out.total = 1
    /\ run[r].pc \notin {"idle", "done", "failed"}
    /\ run[r].wposts # {}
    /\ run[r].pre.posts = posts /\ Cardinality(posts) = 1

\* ---------------------------------------------------------------- C30
\* the step by which request q is answered 400 "Topic with the same name
\* already exists."
C30_Conflict(q) ==
  /\ req[q].pc # "done"
  /\ req'[q].pc = "done"
  /\ req'[q].resp = 400

\* the name the request asks for, <<>> when it asks for none
C30_Requested(q) ==
  IF req[q].op = "create" THEN <<req[q].row.name>>
  ELSE IF "name" \in DOMAIN req[q].body.vals THEN <<req[q].body.vals.name>>
  ELSE <<>>

C30_Step(q) ==
  /\ C30_Conflict(q) =>
       /\ C30_Requested(q) # <<>>
       /\ \E t \in topics : t.id # req[q].tid /\ <<t.name>> = C30_Requested(q)
  /\ (/\ req[q].op = "update" /\ req[q].pc = "write" /\ req'[q].pc = "done"
      /\ req[q].body.nulls = {}
      /\ DOMAIN req[q].body.vals = {"name"}
      /\ \E t \in topics : t.id = req[q].tid /\ t.name = req[q].body.vals.name)
       => /\ req'[q].resp # 400
          /\ topics' = topics

\* C30: the create-topic and update-topic endpoints answer "Topic with the
\* same name already exists." only when another persisted topic holds the
\* requested name; any other rejected write (an update that sets name or
\* is_active to null) is not reported as a name conflict, and renaming a
\* topic to its own current name is not refused.
C30_ConflictOnlyForTakenName == [][\A q \in ReqIds : C30_Step(q)]_vars

\* ---------------------------------------------------------------- the recurring schedule
\* celery beat fires app.tasks.fetch_all_topics every five minutes, for ever,
\* whether or not the previous invocation has returned. No statement of the
\* job reads a timestamp or a sequence value, so timestamps from MaxStamp on
\* and sequence values from MaxSeq on are recorded as the bound; this keeps
\* the states of a never-ending schedule finite.
Stamp(n) == IF n < MaxStamp THEN n ELSE MaxStamp

SeqValue(n) == IF n < MaxSeq THEN n ELSE MaxSeq

\* "schedule": crontab(minute="*/5"): StartRun with no end to the schedule
TriggerRun(r) ==
  /\ RunFree(r)
  /\ \E order \in Orders(get_active_topics) :
       run' = [run EXCEPT ![r] =
                 [IdleRun EXCEPT !.pc = IF Len(order) = 0 THEN "commit" ELSE "fetch",
                                 !.topics = order,
                                 !.ti = IF Len(order) = 0 THEN 0 ELSE 1,
                                 !.stats = [ZeroStats EXCEPT !.topics_checked = Len(order)],
                                 !.now = Stamp(clock + 1),
                                 !.pre = [posts |-> posts, logs |-> logs, seq |-> nextPostId],
                                 !.prev = last]]
  /\ clock' = Stamp(clock + 1)
  /\ UNCHANGED <<call, topics, posts, logs, feeds, req, nextTopicId, nextPostId, nextLogId, nreq, last>>

\* InsertPost under the recurring schedule
InsertPostAgain(r) ==
  /\ run[r].pc = "insert"
  /\ LET topic == run[r].topics[run[r].ti]
         entry == run[r].entries[run[r].ei]
         post == NewPost(nextPostId, topic, entry, run[r].now)
         log == NewLog(nextLogId, post, run[r].now)
     IN /\ ~UidHeld(r, entry.uid)
        /\ IF UidTaken(r, entry.uid) \/ TopicMissing(topic.id)
           THEN /\ run' = [run EXCEPT ![r] = Rollback(r, "IntegrityError")]
                /\ UNCHANGED nextLogId
           ELSE /\ run' = [run EXCEPT ![r] =
                             Advance([run[r] EXCEPT !.wposts = @ \cup {post},
                                                    !.wlogs = @ \cup {log},
                                                    !.made = @ \cup {post.id},
                                                    !.stats = CountCreated(@)])]
                /\ nextLogId' = SeqValue(nextLogId + 1)
  /\ nextPostId' = SeqValue(nextPostId + 1)
  /\ UNCHANGED <<call, topics, posts, logs, feeds, req, nextTopicId, clock, nreq, last>>

\* DeadlockAbort under the recurring schedule
DeadlockAbortAgain(r) ==
  /\ run[r].pc = "insert"
  /\ \E o \in RunIds \ {r} :
       /\ run[o].pc = "insert"
       /\ run[r].entries[run[r].ei].uid \in Uids(run[o].wposts)
       /\ run[o].entries[run[o].ei].uid \in Uids(run[r].wposts)
  /\ run' = [run EXCEPT ![r] = Rollback(r, "DeadlockDetected")]
  /\ nextPostId' = SeqValue(nextPostId + 1)
  /\ UNCHANGED <<call, topics, posts, logs, feeds, req, nextTopicId, nextLogId, clock, nreq, last>>

\* the statements of invocation r that the worker process executes
JobStep(r) ==
  \/ FetchFeed(r)
  \/ CheckEntry(r)
  \/ InsertPostAgain(r)
  \/ Commit(r)

\* two active topics with supported sources, and no request to the topic API
InitSchedule ==
  /\ InitJob
  /\ topics \in {SeedTopics \cup {TopicC}, SeedTopics \cup {TopicCOpen}}

\* every feed fetch succeeds: no FetchError
NextSchedule ==
  \/ \E r \in RunIds : TriggerRun(r)
  \/ \E r \in RunIds : FetchFeed(r)
  \/ \E r \in RunIds : CheckEntry(r)
  \/ \E r \in RunIds : InsertPostAgain(r)
  \/ \E r \in RunIds : DeadlockAbortAgain(r)
  \/ \E r \in RunIds : Commit(r)

\* The beat keeps triggering; a worker process executes the next statement
\* of its invocation whenever the store lets it; the store's deadlock
\* detector aborts one of two transactions that wait for each other.
FairSchedule ==
  /\ WF_vars(\E r \in RunIds : TriggerRun(r))
  /\ \A r \in RunIds : WF_vars(JobStep(r))
  /\ WF_vars(\E r \in RunIds : DeadlockAbortAgain(r))

SpecSchedule == InitSchedule /\ [][NextSchedule]_vars /\ FairSchedule

\* ---------------------------------------------------------------- C29
\* the uids of the entries of active topics that pass their topic's keywords
C29_Accepted ==
  UNION { {FeedEntries(t)[i].uid :
             i \in {j \in 1..Len(FeedEntries(t)) :
                      should_keep_entry(FeedEntries(t)[j], t.keywords)}} :
          t \in get_active_topics }

====
